---- MODULE Spec2Model ----
(***************************************************************************)
(* A model of the twprs core: the rescrape scheduler (scraper/src/queue.rs), *)
(* the profile store and its merge operator (db/src/db.rs) and the         *)
(* deactivation log (db/src/deactivation.rs).                              *)
(*                                                                         *)
(* The module holds several specifications over one set of variables:      *)
(*   SpecQueue  the scheduler, one action per public operation             *)
(*   SpecStore  the profile store: update, the engine's merges, lookup,    *)
(*              and the grouped iterator                                   *)
(*   SpecLog    the deactivation log operations on bounded inputs          *)
(* A specification keeps the variables of the other components at their    *)
(* initial values.                                                         *)
(***************************************************************************)
EXTENDS Integers, Sequences, FiniteSets, TLC

VARIABLES
    \* ---- scheduler (UserQueue) ----
    underlying,            \* PriorityQueue<u64, Reverse<u32>>: id -> target
    scores,                \* HashMap<u64, u32>
    recently_deactivated,  \* HashMap<u64, DateTime<Utc>>
    now,                   \* the wall clock read by Utc::now(), in seconds
    ticks,                 \* number of clock advances so far
    op,                    \* the last operation that ran, with its arguments
    tasks,                 \* the scheduler operations in flight, one per task
    locks,                 \* the holders of the three RwLocks of UserQueue
    calls,                 \* number of scheduler operations started by tasks
    \* ---- profile store (ProfileDb over the storage engine) ----
    db,                    \* key -> [existing, operands]: the engine's cell
    ingested,              \* key -> the update calls made, with their wall time
    \* ---- deactivation log (Log) ----
    log,                   \* Log.entries: user id -> Vec<Entry>
    merges,                \* number of merges and updates applied to log
    input,                 \* the lines of the file log was read from, <<>> once merged
    \* ---- every component ----
    out                    \* what the last operation returned

schedVars == <<underlying, scores, recently_deactivated>>
clockVars == <<now, ticks>>
storeVars == <<db, ingested>>
logVars == <<log, merges, input>>
taskVars == <<tasks, locks, calls>>
vars == <<underlying, scores, recently_deactivated, now, ticks, op,
          tasks, locks, calls, db, ingested, log, merges, input, out>>

(***************************************************************************)
(* Bounds of the model.                                                    *)
(***************************************************************************)
NumIds == 2
MaxTicks == 1
MaxScore == 2

Ids == 1..NumIds

(***************************************************************************)
(* Program constants (queue.rs:8-9).                                       *)
(***************************************************************************)
DEFAULT_SKIP_DEACTIVATION_RECHECK_SECONDS == 2 * 60 * 60
MAX_TARGET_DAYS == 10

(***************************************************************************)
(* u32 values.  TLC's integers are 32-bit signed, so a u32 is kept as the  *)
(* pair <<high 16 bits, low 16 bits>>; the order of pairs is the order of  *)
(* the numbers.                                                            *)
(***************************************************************************)
U32(n) == <<n \div 65536, n % 65536>>
U32_MAX == <<65535, 65535>>
U32Less(a, b) == a[1] < b[1] \/ (a[1] = b[1] /\ a[2] < b[2])
U32LessEq(a, b) == a = b \/ U32Less(a, b)

(***************************************************************************)
(* IEEE-754 binary32 arithmetic, as far as compute_target uses it.         *)
(* A finite positive f32 is m * 2^e with 2^23 <= m < 2^24; results are     *)
(* rounded to nearest, ties to even.                                       *)
(***************************************************************************)
F32Zero == [inf |-> FALSE, m |-> 0, e |-> 0]
F32Inf == [inf |-> TRUE, m |-> 0, e |-> 0]
F32Min == 8388608     \* 2^23
F32Lim == 16777216    \* 2^24

\* (q + r/d) * 2^e with F32Min <= q < F32Lim and 0 <= r < d, rounded.
F32Round(q, r, d, e) ==
    LET up == (2 * r > d) \/ (2 * r = d /\ q % 2 = 1)
        q1 == IF up THEN q + 1 ELSE q
    IN  IF q1 = F32Lim THEN [inf |-> FALSE, m |-> F32Min, e |-> e + 1]
                       ELSE [inf |-> FALSE, m |-> q1, e |-> e]

RECURSIVE F32ShiftDown(_, _)
F32ShiftDown(p, j) == IF p \div (2^j) < F32Lim THEN j ELSE F32ShiftDown(p, j + 1)

RECURSIVE F32ShiftUp(_, _)
F32ShiftUp(p, k) == IF p * (2^k) >= F32Min THEN k ELSE F32ShiftUp(p, k + 1)

\* The f32 nearest to the integer p > 0 times 2^e.
F32Normalize(p, e) ==
    IF p >= F32Min
    THEN LET j == F32ShiftDown(p, 0)
         IN  F32Round(p \div (2^j), p % (2^j), 2^j, e + j)
    ELSE LET k == F32ShiftUp(p, 0)
         IN  [inf |-> FALSE, m |-> p * (2^k), e |-> e - k]

\* `n as f32` for a non-negative integer n.
F32FromInt(n) == IF n = 0 THEN F32Zero ELSE F32Normalize(n, 0)

RECURSIVE F32DivScale(_, _, _)
F32DivScale(a, b, k) ==
    IF (a * (2^k)) \div b >= F32Min THEN k ELSE F32DivScale(a, b, k + 1)

\* a / b for two positive integers that are exact in f32; x / 0.0 = +inf.
F32Div(a, b) ==
    IF b = 0 THEN F32Inf
    ELSE LET k == F32DivScale(a, b, 0)
             n == a * (2^k)
         IN  F32Round(n \div b, n % b, b, 0 - k)

\* x * c for an f32 x and a positive integer c that is exact in f32.
F32MulInt(x, c) ==
    IF x.inf THEN F32Inf
    ELSE IF x.m = 0 THEN F32Zero
    ELSE F32Normalize(x.m * c, x.e)

\* x + y for two non-negative f32 values (three guard bits and a sticky bit).
F32Add(x, y) ==
    IF x.inf \/ y.inf THEN F32Inf
    ELSE IF x.m = 0 THEN y
    ELSE IF y.m = 0 THEN x
    ELSE LET hi == IF x.e >= y.e THEN x ELSE y
             lo == IF x.e >= y.e THEN y ELSE x
             d == hi.e - lo.e
             lo8 == lo.m * 8
             shifted == IF d >= 28 THEN 0 ELSE lo8 \div (2^d)
             sticky == IF d >= 28 THEN 1 ELSE (IF lo8 % (2^d) # 0 THEN 1 ELSE 0)
             s == hi.m * 8 + shifted
             j == IF s < 16 * F32Min THEN 3 ELSE 4
         IN  F32Round(s \div (2^j), 2 * (s % (2^j)) + sticky, 2 * (2^j), hi.e - 3 + j)

\* `x as u32`: truncates toward zero and saturates (+inf gives u32::MAX).
F32ToU32(x) ==
    IF x.inf THEN U32_MAX
    ELSE IF x.m = 0 THEN U32(0)
    ELSE IF x.e >= 9 THEN U32_MAX
    ELSE IF x.e = 8 THEN <<x.m \div 256, (x.m % 256) * 256>>
    ELSE IF x.e >= 0 THEN U32(x.m * (2^(x.e)))
    ELSE IF 0 - x.e >= 24 THEN U32(0)
    ELSE U32(x.m \div (2^(0 - x.e)))

(***************************************************************************)
(* UserQueue::compute_target (queue.rs:126-131).                           *)
(***************************************************************************)
compute_target(t, score) ==
    LET base == F32FromInt(t)
        days == F32Div(MAX_TARGET_DAYS, score)
    IN  F32ToU32(F32Add(base, F32MulInt(F32MulInt(F32MulInt(days, 24), 60), 60)))

(***************************************************************************)
(* The priority_queue crate's operations on PriorityQueue<u64, Reverse<u32>>.*)
(* A queue is a function from the ids it holds to their targets; the       *)
(* priority Reverse(a) is greater than Reverse(b) iff a < b.               *)
(***************************************************************************)
push(queue, id, target) ==
    [i \in DOMAIN queue \cup {id} |-> IF i = id THEN target ELSE queue[i]]

\* changes the priority only if the new one is greater (the target smaller)
push_increase(queue, id, target) ==
    IF id \in DOMAIN queue /\ ~U32Less(target, queue[id]) THEN queue
    ELSE push(queue, id, target)

\* changes the priority only if the new one is lower (the target larger)
push_decrease(queue, id, target) ==
    IF id \in DOMAIN queue /\ ~U32Less(queue[id], target) THEN queue
    ELSE push(queue, id, target)

\* a pop() that returns any item
PopCandidatesAny(queue) == DOMAIN queue

\* the ids pop() may return: those of greatest priority
PopCandidates(queue) ==
    {i \in DOMAIN queue : \A v \in DOMAIN queue : U32LessEq(queue[i], queue[v])}

\* pop() written as peek(): the item stays in the queue
WithoutPeek(queue, ids) == queue

Without(queue, ids) == [i \in DOMAIN queue \ ids |-> queue[i]]

Range(s) == {s[i] : i \in 1..Len(s)}

\* b is a sequence of ids that successive pop() calls on queue can return
IsPopOrder(queue, b) ==
    \A i \in 1..Len(b) :
        b[i] \in PopCandidates(Without(queue, {b[j] : j \in 1..(i - 1)}))

(***************************************************************************)
(* The private helpers of UserQueue, as functions of the map they lock.    *)
(***************************************************************************)
\* decrement_scores without the `if *score > 0` test
decrement_scores_unchecked(sc, ids) ==
    [i \in DOMAIN sc \cup ids |->
        LET score == IF i \in DOMAIN sc THEN sc[i] ELSE 0
        IN  IF i \in ids THEN score - 1 ELSE score]

\* decrement_scores with get_mut(&id) in place of entry(id).or_default()
decrement_scores_known(sc, ids) ==
    [i \in DOMAIN sc |-> IF i \in ids /\ sc[i] > 0 THEN sc[i] - 1 ELSE sc[i]]

\* queue.rs:133-145
decrement_scores(sc, ids) ==
    [i \in DOMAIN sc \cup ids |->
        LET score == IF i \in DOMAIN sc THEN sc[i] ELSE 0
        IN  IF i \in ids /\ score > 0 THEN score - 1 ELSE score]

\* increment_scores with get_mut(&id) in place of entry(id).or_default()
increment_scores_known(sc, ids) ==
    [i \in DOMAIN sc |-> IF i \in ids THEN sc[i] + 1 ELSE sc[i]]

\* queue.rs:147-157
increment_scores(sc, ids) ==
    [i \in DOMAIN sc \cup ids |->
        LET score == IF i \in DOMAIN sc THEN sc[i] ELSE 0
        IN  IF i \in ids THEN score + 1 ELSE score]

\* remove_recently_deactivated that retains every id
remove_recently_deactivated_all(rd, ids, t) == ids

\* queue.rs:159-173: ids.retain(...)
remove_recently_deactivated(rd, ids, t) ==
    {id \in ids : IF id \in DOMAIN rd
                  THEN t - rd[id] <= DEFAULT_SKIP_DEACTIVATION_RECHECK_SECONDS
                  ELSE TRUE}

\* queue.rs:175-184
prioritize(queue, ids, priority) ==
    [i \in DOMAIN queue \cup ids |->
        IF i \in ids THEN push_increase(queue, i, priority)[i] ELSE queue[i]]

\* prioritize_new written with push_increase, as prioritize is
prioritize_new_increase(queue, ids) ==
    [i \in DOMAIN queue \cup ids |->
        IF i \in ids THEN push_increase(queue, i, U32(0))[i] ELSE queue[i]]

\* queue.rs:186-195
prioritize_new(queue, ids) ==
    [i \in DOMAIN queue \cup ids |->
        IF i \in ids THEN push_decrease(queue, i, U32(0))[i] ELSE queue[i]]

(***************************************************************************)
(* The scheduler's operations.                                             *)
(***************************************************************************)
StartTime == 1600000001
BootSnapshots == {0, StartTime}
BootScores == 0..MaxScore
TickSteps == {DEFAULT_SKIP_DEACTIVATION_RECHECK_SECONDS,
              DEFAULT_SKIP_DEACTIVATION_RECHECK_SECONDS + 1}
MaxBatch == NumIds

NoOp == [name |-> "none", ids |-> {}, batch |-> <<>>]

\* the other components, untouched by the scheduler's specification
IdleStore == db = <<>> /\ ingested = <<>>
IdleLog == log = <<>> /\ merges = 0 /\ input = <<>>
IdleQueue == underlying = <<>> /\ scores = <<>> /\ recently_deactivated = <<>>
IdleTasks == tasks = <<>> /\ locks = <<>> /\ calls = 0

\* UserQueue::new (queue.rs:19-38) on a bootstrap input
InitQueue ==
    /\ \E known \in SUBSET Ids :
        \E values \in [known -> BootScores \X BootSnapshots] :
            /\ underlying = [id \in known |->
                                compute_target(values[id][2], values[id][1])]
            /\ scores = [id \in known |-> values[id][1]]
            /\ op = [name |-> "new", ids |-> known, batch |-> <<>>]
    /\ recently_deactivated = << >>
    /\ now = StartTime
    /\ ticks = 0
    /\ out = <<>>
    /\ IdleTasks
    /\ IdleStore
    /\ IdleLog

\* queue.rs:40-59
next_batch(count) ==
    /\ \E batch \in UNION {[1..k -> Ids] : k \in 0..count} :
        /\ Len(batch) = IF count < Cardinality(DOMAIN underlying)
                        THEN count ELSE Cardinality(DOMAIN underlying)
        /\ IsPopOrder(underlying, batch)
        /\ underlying' = Without(underlying, Range(batch))
        /\ op' = [name |-> "next_batch", ids |-> {}, batch |-> batch,
                  count |-> count]
    /\ UNCHANGED <<taskVars, scores, recently_deactivated, clockVars, storeVars, logVars, out>>

\* queue.rs:62-75
process_removals(ids) ==
    /\ underlying' = prioritize(underlying,
                        remove_recently_deactivated(recently_deactivated, ids, now), U32(0))
    /\ scores' = decrement_scores(scores, ids)
    /\ op' = [name |-> "process_removals", ids |-> ids, batch |-> <<>>]
    /\ UNCHANGED <<taskVars, recently_deactivated, clockVars, storeVars, logVars, out>>

\* queue.rs:78-90
process_additions(ids) ==
    /\ \A id \in ids : id \in DOMAIN scores => scores[id] < MaxScore
    /\ underlying' = prioritize_new(underlying, ids)
    /\ scores' = increment_scores(scores, ids)
    /\ op' = [name |-> "process_additions", ids |-> ids, batch |-> <<>>]
    /\ UNCHANGED <<taskVars, recently_deactivated, clockVars, storeVars, logVars, out>>

\* queue.rs:92-108
process_updates(ids) ==
    /\ underlying' = [i \in DOMAIN underlying \cup ids |->
            IF i \in ids
            THEN compute_target(now, IF i \in DOMAIN scores THEN scores[i] ELSE 1)
            ELSE underlying[i]]
    /\ op' = [name |-> "process_updates", ids |-> ids, batch |-> <<>>]
    /\ UNCHANGED <<taskVars, scores, recently_deactivated, clockVars, storeVars, logVars, out>>

\* queue.rs:110-124
\* process_deactivations that also forgets the scores of the listed ids
process_deactivations_forget(ids) ==
    /\ recently_deactivated' = [i \in DOMAIN recently_deactivated \cup ids |->
            IF i \in ids THEN now ELSE recently_deactivated[i]]
    /\ scores' = [i \in DOMAIN scores \ ids |-> scores[i]]
    /\ op' = [name |-> "process_deactivations", ids |-> ids, batch |-> <<>>]
    /\ UNCHANGED <<taskVars, underlying, clockVars, storeVars, logVars, out>>

process_deactivations(ids) ==
    /\ recently_deactivated' = [i \in DOMAIN recently_deactivated \cup ids |->
            IF i \in ids THEN now ELSE recently_deactivated[i]]
    /\ op' = [name |-> "process_deactivations", ids |-> ids, batch |-> <<>>]
    /\ UNCHANGED <<taskVars, underlying, scores, clockVars, storeVars, logVars, out>>

\* the wall clock advances between operations
Tick ==
    /\ ticks < MaxTicks
    /\ \E d \in TickSteps : now' = now + d
    /\ ticks' = ticks + 1
    /\ op' = NoOp
    /\ UNCHANGED <<taskVars, schedVars, storeVars, logVars, out>>

NextQueue ==
    \/ \E count \in 1..MaxBatch : next_batch(count)
    \/ \E ids \in SUBSET Ids \ {{}} : process_removals(ids)
    \/ \E ids \in SUBSET Ids \ {{}} : process_additions(ids)
    \/ \E ids \in SUBSET Ids \ {{}} : process_updates(ids)
    \/ \E ids \in SUBSET Ids \ {{}} : process_deactivations(ids)
    \/ Tick

SpecQueue == InitQueue /\ [][NextQueue]_vars

(***************************************************************************)
(* The scheduler under concurrent callers.                                 *)
(*                                                                         *)
(* Each task runs one operation of UserQueue at a time.  An operation is   *)
(* one or two branches (the arms of join!); a branch waits for a lock of   *)
(* futures_locks::RwLock, holds it while its closure runs, and drops the   *)
(* guard when the closure ends.  The closures of with_read / with_write    *)
(* are Send + 'static and may run on any thread of the runtime, so the two *)
(* arms of a join! are interleaved freely, as the tasks are.               *)
(***************************************************************************)
NumTasks == 2
MaxCalls == 2

Tasks == 1..NumTasks
LockNames == {"underlying", "scores", "recently_deactivated"}

PcNone == [at |-> "none", lock |-> "-", mode |-> "-"]
PcDone == [at |-> "done", lock |-> "-", mode |-> "-"]
PcWait(l, m) == [at |-> "wait", lock |-> l, mode |-> m]
PcHeld(l, m) == [at |-> "held", lock |-> l, mode |-> m]

IdleTask == [name |-> "idle", ids |-> {}, count |-> 0, t |-> 0,
             a |-> PcNone, b |-> PcNone, kept |-> {}, batch |-> <<>>]

\* a guard belongs to a branch <<task, arm>>
FreeLock == [writers |-> {}, readers |-> {}]

\* a lock that is granted to whoever asks
CanAcquire_free(l, m) == TRUE

\* RwLock::read is granted unless a writer holds the lock, RwLock::write
\* only when nobody holds it
CanAcquire(l, m) ==
    /\ locks[l].writers = {}
    /\ m = "write" => locks[l].readers = {}

Acquired(l, m, holder) ==
    IF m = "write" THEN [locks EXCEPT ![l].writers = {holder}]
    ELSE [locks EXCEPT ![l].readers = @ \cup {holder}]

\* the guards outlive the closure
ReleasedNever(ls, holder) == locks

\* the guards of a branch on the locks ls are dropped
Released(ls, holder) ==
    [l \in LockNames |->
        IF l \in ls
        THEN [writers |-> locks[l].writers \ {holder},
              readers |-> locks[l].readers \ {holder}]
        ELSE locks[l]]

\* the locks a branch holds, and the lock it waits for
HeldBy(t, br) ==
    {l \in LockNames : <<t, br>> \in locks[l].writers \cup locks[l].readers}
AwaitedBy(t, br) ==
    {l \in LockNames : tasks[t][br].at = "wait" /\ tasks[t][br].lock = l}

\* when the last branch of an operation ends its future completes and its
\* locals are dropped; the caller keeps the returned batch
Completed(task) ==
    IF task.a.at \in {"none", "done"} /\ task.b.at \in {"none", "done"}
    THEN [task EXCEPT !.ids = {}, !.count = 0, !.t = 0, !.kept = {}]
    ELSE task

Finished(t) == tasks[t].a.at \in {"none", "done"} /\ tasks[t].b.at \in {"none", "done"}

\* the first await of each operation (queue.rs:41, 70-73, 86-88, 97, 116)
FirstPc(name) ==
    CASE name = "next_batch" ->
            <<PcWait("underlying", "write"), PcNone>>
      [] name = "process_removals" ->
            <<PcWait("recently_deactivated", "read"), PcWait("scores", "write")>>
      [] name = "process_additions" ->
            <<PcWait("underlying", "write"), PcWait("scores", "write")>>
      [] name = "process_updates" ->
            <<PcWait("scores", "read"), PcNone>>
      [] name = "process_deactivations" ->
            <<PcWait("recently_deactivated", "write"), PcNone>>

OperationNames == {"next_batch", "process_removals", "process_additions",
                   "process_updates", "process_deactivations"}

\* UserQueue::new on ids last seen at StartTime, before any caller runs
InitTasks ==
    /\ \E known \in SUBSET Ids :
        \E values \in [known -> BootScores] :
            /\ underlying = [id \in known |->
                                compute_target(StartTime, values[id])]
            /\ scores = [id \in known |-> values[id]]
    /\ recently_deactivated = << >>
    /\ now = StartTime
    /\ ticks = 0
    /\ op = NoOp
    /\ out = <<>>
    /\ tasks = [t \in Tasks |-> IdleTask]
    /\ locks = [l \in LockNames |-> FreeLock]
    /\ calls = 0
    /\ IdleStore
    /\ IdleLog

\* a caller starts an operation: the future is created and polled up to
\* its first await
Call(t, name, ids, count) ==
    /\ calls < MaxCalls
    /\ Finished(t)
    /\ name = "next_batch" <=> ids = {}
    /\ name = "next_batch" <=> count > 0
    /\ tasks' = [tasks EXCEPT ![t] =
            [name |-> name, ids |-> ids, count |-> count, t |-> now,
             a |-> FirstPc(name)[1], b |-> FirstPc(name)[2],
             kept |-> {}, batch |-> <<>>]]
    /\ calls' = calls + 1
    /\ UNCHANGED <<schedVars, clockVars, op, locks, storeVars, logVars, out>>

\* a waiting branch obtains its lock.  process_updates keeps the guard of
\* scores.read() in a local and goes on to await the queue (queue.rs:97-100)
Acquire(t, br) ==
    LET pc == tasks[t][br] IN
    /\ pc.at = "wait"
    /\ CanAcquire(pc.lock, pc.mode)
    /\ locks' = Acquired(pc.lock, pc.mode, <<t, br>>)
    /\ tasks' = [tasks EXCEPT ![t][br] =
            IF tasks[t].name = "process_updates" /\ pc.lock = "scores"
            THEN PcWait("underlying", "write")
            ELSE PcHeld(pc.lock, pc.mode)]
    /\ UNCHANGED <<schedVars, clockVars, op, calls, storeVars, logVars, out>>

InClosure(t, name, br, l) ==
    /\ tasks[t].name = name
    /\ tasks[t][br].at = "held"
    /\ tasks[t][br].lock = l

\* queue.rs:42-57
next_batch_closure(t) ==
    /\ InClosure(t, "next_batch", "a", "underlying")
    /\ \E batch \in UNION {[1..k -> Ids] : k \in 0..tasks[t].count} :
        /\ Len(batch) = IF tasks[t].count < Cardinality(DOMAIN underlying)
                        THEN tasks[t].count ELSE Cardinality(DOMAIN underlying)
        /\ IsPopOrder(underlying, batch)
        /\ underlying' = Without(underlying, Range(batch))
        /\ tasks' = [tasks EXCEPT ![t] = Completed([@ EXCEPT !.a = PcDone, !.batch = batch])]
    /\ locks' = Released({"underlying"}, <<t, "a">>)
    /\ UNCHANGED <<scores, recently_deactivated, clockVars, op, calls,
                   storeVars, logVars, out>>

\* queue.rs:164-171, then `.then(|ids| self.prioritize(ids, 0))` (queue.rs:71)
remove_recently_deactivated_closure(t) ==
    /\ InClosure(t, "process_removals", "a", "recently_deactivated")
    /\ tasks' = [tasks EXCEPT
            ![t].kept = remove_recently_deactivated(recently_deactivated,
                                                    tasks[t].ids, tasks[t].t),
            ![t].a = PcWait("underlying", "write")]
    /\ locks' = Released({"recently_deactivated"}, <<t, "a">>)
    /\ UNCHANGED <<schedVars, clockVars, op, calls, storeVars, logVars, out>>

\* queue.rs:177-182
prioritize_closure(t) ==
    /\ InClosure(t, "process_removals", "a", "underlying")
    /\ underlying' = prioritize(underlying, tasks[t].kept, U32(0))
    /\ tasks' = [tasks EXCEPT ![t] = Completed([@ EXCEPT !.a = PcDone])]
    /\ locks' = Released({"underlying"}, <<t, "a">>)
    /\ UNCHANGED <<scores, recently_deactivated, clockVars, op, calls,
                   storeVars, logVars, out>>

\* queue.rs:135-143
decrement_scores_closure(t) ==
    /\ InClosure(t, "process_removals", "b", "scores")
    /\ scores' = decrement_scores(scores, tasks[t].ids)
    /\ tasks' = [tasks EXCEPT ![t] = Completed([@ EXCEPT !.b = PcDone])]
    /\ locks' = Released({"scores"}, <<t, "b">>)
    /\ UNCHANGED <<underlying, recently_deactivated, clockVars, op, calls,
                   storeVars, logVars, out>>

\* queue.rs:188-193
prioritize_new_closure(t) ==
    /\ InClosure(t, "process_additions", "a", "underlying")
    /\ underlying' = prioritize_new(underlying, tasks[t].ids)
    /\ tasks' = [tasks EXCEPT ![t] = Completed([@ EXCEPT !.a = PcDone])]
    /\ locks' = Released({"underlying"}, <<t, "a">>)
    /\ UNCHANGED <<scores, recently_deactivated, clockVars, op, calls,
                   storeVars, logVars, out>>

\* queue.rs:149-155
increment_scores_closure(t) ==
    /\ InClosure(t, "process_additions", "b", "scores")
    /\ scores' = increment_scores(scores, tasks[t].ids)
    /\ tasks' = [tasks EXCEPT ![t] = Completed([@ EXCEPT !.b = PcDone])]
    /\ locks' = Released({"scores"}, <<t, "b">>)
    /\ UNCHANGED <<underlying, recently_deactivated, clockVars, op, calls,
                   storeVars, logVars, out>>

\* compute_target at the times and scores the concurrent scheduler meets,
\* computed once; any other argument is computed on the spot
TaskTimes == {StartTime + k * (DEFAULT_SKIP_DEACTIVATION_RECHECK_SECONDS + 1) :
                k \in 0..MaxTicks}
TargetTable ==
    [t \in TaskTimes |-> [score \in 0..(MaxScore + MaxCalls) |-> compute_target(t, score)]]
compute_target_at(t, score) ==
    IF t \in TaskTimes /\ score \in 0..(MaxScore + MaxCalls)
    THEN TargetTable[t][score]
    ELSE compute_target(t, score)

\* process_updates whose closure keeps the read guard of scores for ever
process_updates_closure_keep(t) ==
    /\ InClosure(t, "process_updates", "a", "underlying")
    /\ underlying' = [i \in DOMAIN underlying \cup tasks[t].ids |->
            IF i \in tasks[t].ids
            THEN compute_target_at(tasks[t].t,
                                   IF i \in DOMAIN scores THEN scores[i] ELSE 1)
            ELSE underlying[i]]
    /\ tasks' = [tasks EXCEPT ![t] = Completed([@ EXCEPT !.a = PcDone])]
    /\ locks' = Released({"underlying"}, <<t, "a">>)
    /\ UNCHANGED <<scores, recently_deactivated, clockVars, op, calls,
                   storeVars, logVars, out>>

\* queue.rs:100-106: the closure owns the read guard of scores as well
process_updates_closure(t) ==
    /\ InClosure(t, "process_updates", "a", "underlying")
    /\ underlying' = [i \in DOMAIN underlying \cup tasks[t].ids |->
            IF i \in tasks[t].ids
            THEN compute_target_at(tasks[t].t,
                                   IF i \in DOMAIN scores THEN scores[i] ELSE 1)
            ELSE underlying[i]]
    /\ tasks' = [tasks EXCEPT ![t] = Completed([@ EXCEPT !.a = PcDone])]
    /\ locks' = Released({"underlying", "scores"}, <<t, "a">>)
    /\ UNCHANGED <<scores, recently_deactivated, clockVars, op, calls,
                   storeVars, logVars, out>>

\* queue.rs:117-122
process_deactivations_closure(t) ==
    /\ InClosure(t, "process_deactivations", "a", "recently_deactivated")
    /\ recently_deactivated' =
            [i \in DOMAIN recently_deactivated \cup tasks[t].ids |->
                IF i \in tasks[t].ids THEN tasks[t].t ELSE recently_deactivated[i]]
    /\ tasks' = [tasks EXCEPT ![t] = Completed([@ EXCEPT !.a = PcDone])]
    /\ locks' = Released({"recently_deactivated"}, <<t, "a">>)
    /\ UNCHANGED <<underlying, scores, clockVars, op, calls,
                   storeVars, logVars, out>>

\* the wall clock passes the recheck window while operations are in flight
TickTasks ==
    /\ ticks < MaxTicks
    /\ now' = now + DEFAULT_SKIP_DEACTIVATION_RECHECK_SECONDS + 1
    /\ ticks' = ticks + 1
    /\ UNCHANGED <<schedVars, op, taskVars, storeVars, logVars, out>>

NextTasks ==
    \/ \E t \in Tasks, name \in OperationNames, ids \in SUBSET Ids,
          count \in 0..MaxBatch : Call(t, name, ids, count)
    \/ \E t \in Tasks, br \in {"a", "b"} : Acquire(t, br)
    \/ \E t \in Tasks : next_batch_closure(t)
    \/ \E t \in Tasks : remove_recently_deactivated_closure(t)
    \/ \E t \in Tasks : prioritize_closure(t)
    \/ \E t \in Tasks : decrement_scores_closure(t)
    \/ \E t \in Tasks : prioritize_new_closure(t)
    \/ \E t \in Tasks : increment_scores_closure(t)
    \/ \E t \in Tasks : process_updates_closure(t)
    \/ \E t \in Tasks : process_deactivations_closure(t)
    \/ TickTasks

SpecTasks == InitTasks /\ [][NextTasks]_vars

\* one poll of task t's future: a branch obtains the lock it awaits or runs
\* the closure whose lock it holds
TaskStep(t) ==
    \/ \E br \in {"a", "b"} : Acquire(t, br)
    \/ next_batch_closure(t)
    \/ remove_recently_deactivated_closure(t)
    \/ prioritize_closure(t)
    \/ decrement_scores_closure(t)
    \/ prioritize_new_closure(t)
    \/ increment_scores_closure(t)
    \/ process_updates_closure(t)
    \/ process_deactivations_closure(t)

\* the executor polls every task that can make progress: a future whose
\* lock was released is woken, and a woken future is eventually polled
\* the lock steps do not depend on the queue's content, so the fair runs
\* start from one queue: every id known with score 1
InitTasksFair ==
    /\ InitTasks
    /\ DOMAIN scores = Ids
    /\ \A id \in Ids : scores[id] = 1

SpecTasksFair ==
    InitTasksFair /\ [][NextTasks]_vars /\ \A t \in Tasks : WF_vars(TaskStep(t))

(***************************************************************************)
(* process_additions({u}) and process_removals({u}) started together      *)
(* (queue.rs:62-90), from every state u can be in: score unset, 0 or       *)
(* positive; u absent from the queue, queued at Reverse(0) or queued at a  *)
(* later target; no deactivation recorded for u, one inside the recheck    *)
(* window or one outside it.  op keeps the state the calls started in.     *)
(***************************************************************************)
RaceScores(u) == {<< >>} \cup {(u :> score) : score \in 0..MaxScore}
RaceQueues(u) == {<< >>, (u :> U32(0)), (u :> compute_target(StartTime, 1))}
RaceDeactivated(u) ==
    {<< >>, (u :> StartTime),
     (u :> StartTime - DEFAULT_SKIP_DEACTIVATION_RECHECK_SECONDS - 1)}

Called(name, ids) ==
    [name |-> name, ids |-> ids, count |-> 0, t |-> StartTime,
     a |-> FirstPc(name)[1], b |-> FirstPc(name)[2],
     kept |-> {}, batch |-> <<>>]

InitRace ==
    /\ \E u \in Ids :
        /\ scores \in RaceScores(u)
        /\ underlying \in RaceQueues(u)
        /\ recently_deactivated \in RaceDeactivated(u)
        /\ tasks = [t \in Tasks |->
                CASE t = 1 -> Called("process_additions", {u})
                  [] t = 2 -> Called("process_removals", {u})
                  [] OTHER -> IdleTask]
        /\ op = [name |-> "race", ids |-> {u}, batch |-> <<>>,
                 scores |-> scores, underlying |-> underlying,
                 recently_deactivated |-> recently_deactivated]
    /\ now = StartTime
    /\ ticks = 0
    /\ out = <<>>
    /\ locks = [l \in LockNames |-> FreeLock]
    /\ calls = 2
    /\ IdleStore
    /\ IdleLog

NextRace ==
    \/ \E t \in Tasks, br \in {"a", "b"} : Acquire(t, br)
    \/ \E t \in Tasks : remove_recently_deactivated_closure(t)
    \/ \E t \in Tasks : prioritize_closure(t)
    \/ \E t \in Tasks : decrement_scores_closure(t)
    \/ \E t \in Tasks : prioritize_new_closure(t)
    \/ \E t \in Tasks : increment_scores_closure(t)

SpecRace == InitRace /\ [][NextRace]_vars

(***************************************************************************)
(* The scraper (scraper/src/scraper.rs): Scraper::run loops over           *)
(* run_batch, the only caller of next_batch, process_updates and           *)
(* process_deactivations.  The scraper is one task; its operations on the  *)
(* queue run alone, so each is one step.  tasks holds the position and the *)
(* locals of run_batch, calls the number of run_batch calls started, out   *)
(* what run returned.                                                      *)
(*                                                                         *)
(* lookup_users_json_or_status is the client's: for each id asked it       *)
(* yields a profile (Ok(value)), a terminal status (Err((ID(id), status))) *)
(* or nothing the scraper keeps (Err((_, _)), or no item); the stream may  *)
(* also end in an error (transport, rate limit, or a value timestamp_json  *)
(* or extract_user_id reject), and then the ids it had not reached are     *)
(* unseen.                                                                 *)
(***************************************************************************)
MaxRuns == 2
BatchSize == MaxBatch
Outcomes == {"profile", "status", "neither"}

ScraperAt(pc, ids, fetched, failed) ==
    [pc |-> pc, next_batch_ids |-> ids, fetched |-> fetched, failed |-> failed]

\* the ids collected from the results (scraper.rs:68-80)
updated_ids(fetched) == {id \in DOMAIN fetched : fetched[id] = "profile"}
deactivated_ids(fetched) == {id \in DOMAIN fetched : fetched[id] = "status"}

\* scrape.rs:25-29: the queue is built and run() enters its loop
InitScraper ==
    /\ \E known \in SUBSET Ids :
        \E values \in [known -> BootScores \X BootSnapshots] :
            /\ underlying = [id \in known |->
                                compute_target(values[id][2], values[id][1])]
            /\ scores = [id \in known |-> values[id][1]]
    /\ recently_deactivated = << >>
    /\ now = StartTime
    /\ ticks = 0
    /\ op = [name |-> "run", ids |-> {}, batch |-> <<>>]
    /\ out = <<>>
    /\ tasks = ScraperAt("loop", <<>>, << >>, FALSE)
    /\ locks = <<>>
    /\ calls = 0
    /\ IdleStore
    /\ IdleLog

\* scraper.rs:34-35, 40: the loop calls run_batch, which pops its batch
run_batch_next_batch ==
    /\ tasks.pc = "loop"
    /\ calls < MaxRuns
    /\ \E batch \in UNION {[1..k -> Ids] : k \in 0..BatchSize} :
        /\ Len(batch) = IF BatchSize < Cardinality(DOMAIN underlying)
                        THEN BatchSize ELSE Cardinality(DOMAIN underlying)
        /\ IsPopOrder(underlying, batch)
        /\ underlying' = Without(underlying, Range(batch))
        /\ tasks' = ScraperAt("lookup", batch, << >>, FALSE)
        /\ op' = [name |-> "next_batch", ids |-> {}, batch |-> batch]
    /\ calls' = calls + 1
    /\ UNCHANGED <<scores, recently_deactivated, clockVars, locks,
                   storeVars, logVars, out>>

\* scraper.rs:42-66: the results are collected; an error in the stream
\* leaves run_batch through `?` (scraper.rs:66), and run through its own
\* (scraper.rs:35)
run_batch_lookup ==
    /\ tasks.pc = "lookup"
    /\ \E seen \in SUBSET Range(tasks.next_batch_ids), failed \in BOOLEAN :
        \E fetched \in [seen -> Outcomes] :
            /\ ~failed => seen = Range(tasks.next_batch_ids)
            /\ failed => seen # Range(tasks.next_batch_ids)
            /\ tasks' = ScraperAt(IF failed THEN "returned" ELSE "process_updates",
                                  tasks.next_batch_ids, fetched, failed)
            /\ out' = IF failed THEN [kind |-> "Err"] ELSE out
            /\ op' = [name |-> "lookup_users_json_or_status",
                      ids |-> Range(tasks.next_batch_ids), batch |-> <<>>]
    /\ UNCHANGED <<schedVars, clockVars, locks, calls, storeVars, logVars>>

\* scraper.rs:82 with queue.rs:92-108
run_batch_process_updates ==
    /\ tasks.pc = "process_updates"
    /\ underlying' = [i \in DOMAIN underlying \cup updated_ids(tasks.fetched) |->
            IF i \in updated_ids(tasks.fetched)
            THEN compute_target(now, IF i \in DOMAIN scores THEN scores[i] ELSE 1)
            ELSE underlying[i]]
    /\ tasks' = [tasks EXCEPT !.pc = "process_deactivations"]
    /\ op' = [name |-> "process_updates", ids |-> updated_ids(tasks.fetched),
              batch |-> <<>>]
    /\ UNCHANGED <<scores, recently_deactivated, clockVars, locks, calls,
                   storeVars, logVars, out>>

\* scraper.rs:83-85 with queue.rs:110-124; run_batch returns Ok(()) and the
\* loop goes round
run_batch_process_deactivations ==
    /\ tasks.pc = "process_deactivations"
    /\ recently_deactivated' =
            [i \in DOMAIN recently_deactivated \cup deactivated_ids(tasks.fetched) |->
                IF i \in deactivated_ids(tasks.fetched) THEN now
                ELSE recently_deactivated[i]]
    /\ tasks' = [tasks EXCEPT !.pc = "loop"]
    /\ op' = [name |-> "process_deactivations",
              ids |-> deactivated_ids(tasks.fetched), batch |-> <<>>]
    /\ UNCHANGED <<underlying, scores, clockVars, locks, calls,
                   storeVars, logVars, out>>

NextScraper ==
    \/ run_batch_next_batch
    \/ run_batch_lookup
    \/ run_batch_process_updates
    \/ run_batch_process_deactivations
    \/ Tick

SpecScraper == InitScraper /\ [][NextScraper]_vars

(***************************************************************************)
(* The scheduler under the callers the repository has: process_updates is  *)
(* called with ids a next_batch call has returned (scraper.rs:40, 82), the *)
(* other operations with any ids.  The caller of next_batch keeps the      *)
(* batch it was given in tasks[t].batch.                                   *)
(***************************************************************************)
MaxPoppedCalls == 3

\* the ids of the batches next_batch has returned to the callers
ReturnedIds == UNION {Range(tasks[t].batch) : t \in Tasks}

\* a caller starts an operation; next_batch is asked for a batch of the
\* scraper's size (scraper.rs:40) and process_updates is given ids out of a
\* batch returned by next_batch (scraper.rs:68-82)
CallPopped(t, name, ids, count) ==
    /\ calls < MaxPoppedCalls
    /\ Finished(t)
    /\ name = "next_batch" <=> ids = {}
    /\ name = "next_batch" <=> count = BatchSize
    /\ name = "process_updates" => ids \subseteq ReturnedIds
    /\ tasks' = [tasks EXCEPT ![t] =
            [name |-> name, ids |-> ids, count |-> count, t |-> now,
             a |-> FirstPc(name)[1], b |-> FirstPc(name)[2],
             kept |-> {}, batch |-> <<>>]]
    /\ calls' = calls + 1
    /\ UNCHANGED <<schedVars, clockVars, op, locks, storeVars, logVars, out>>

NextCallers ==
    \/ \E t \in Tasks, name \in OperationNames, ids \in SUBSET Ids,
          count \in {0, BatchSize} : CallPopped(t, name, ids, count)
    \/ \E t \in Tasks, br \in {"a", "b"} : Acquire(t, br)
    \/ \E t \in Tasks : next_batch_closure(t)
    \/ \E t \in Tasks : remove_recently_deactivated_closure(t)
    \/ \E t \in Tasks : prioritize_closure(t)
    \/ \E t \in Tasks : decrement_scores_closure(t)
    \/ \E t \in Tasks : prioritize_new_closure(t)
    \/ \E t \in Tasks : increment_scores_closure(t)
    \/ \E t \in Tasks : process_updates_closure(t)
    \/ \E t \in Tasks : process_deactivations_closure(t)
    \/ TickTasks

\* whether an id is queued and whether it has a score do not depend on the
\* value of a score, so the callers start from ids known with score 1
InitCallers ==
    /\ InitTasks
    /\ \A id \in DOMAIN scores : scores[id] = 1

SpecCallers == InitCallers /\ [][NextCallers]_vars

(***************************************************************************)
(* The profile store (db/src/db.rs).                                       *)
(*                                                                         *)
(* A screen name is its sequence of bytes; a key is the 8-byte big-endian  *)
(* id, modelled as one element, followed by the bytes of the lowercased    *)
(* name, so that the byte order of keys is the lexicographic order of the  *)
(* sequences.  A value is the 8-byte timestamp prefix, one element,        *)
(* followed by the encoded profile.                                        *)
(***************************************************************************)
MaxUpdates == 3
SnapshotSpan == 1

ScreenNames == {<<97>>, <<65>>, <<98>>}      \* "a", "A", "b"
Snapshots == (StartTime - SnapshotSpan)..StartTime
Users == [id : Ids, screen_name : ScreenNames, snapshot : Snapshots]

\* str::to_lowercase on ASCII bytes
to_lowercase(name) ==
    [i \in 1..Len(name) |-> IF name[i] \in 65..90 THEN name[i] + 32 ELSE name[i]]

\* make_key without the to_lowercase
make_key_verbatim(user_id, screen_name) == <<user_id>> \o screen_name

\* ProfileDb::make_key (db.rs:111-118)
make_key(user_id, screen_name) == <<user_id>> \o to_lowercase(screen_name)

\* the record codec: to_avro_datum and from_avro_datum on the User schema
Encode(user) == <<user.id, user.screen_name, user.snapshot>>
Decodable(bytes) == Len(bytes) = 3
Decode(bytes) == [id |-> bytes[1], screen_name |-> bytes[2], snapshot |-> bytes[3]]

\* the value update and merge build: timestamp prefix, then the payload
EncodeValue(timestamp, user) == <<timestamp>> \o Encode(user)

\* parse_value (db.rs:212-224)
parse_value(value) ==
    IF Len(value) < 1 THEN [kind |-> "panic"]
    ELSE IF ~Decodable(Tail(value)) THEN [kind |-> "Avro"]
    ELSE [kind |-> "Ok", timestamp |-> value[1], user |-> Decode(Tail(value))]

\* a merge step that always takes the operand's timestamp
MergeStepLastTimestamp(acc, bytes) ==
    LET parsed == parse_value(bytes)
    IN  IF parsed.kind # "Ok" THEN acc
        ELSE [timestamp |-> <<parsed.timestamp>>,
              user |->
                 IF acc.user = <<>> \/ parsed.user.snapshot > acc.user[1].snapshot
                 THEN <<parsed.user>> ELSE acc.user]

\* a merge step that always takes the operand's profile
MergeStepLastUser(acc, bytes) ==
    LET parsed == parse_value(bytes)
    IN  IF parsed.kind # "Ok" THEN acc
        ELSE [timestamp |->
                 IF acc.timestamp = <<>> \/ parsed.timestamp < acc.timestamp[1]
                 THEN <<parsed.timestamp>> ELSE acc.timestamp,
              user |-> <<parsed.user>>]

\* a merge step whose snapshot comparison is turned round
MergeStepOldestUser(acc, bytes) ==
    LET parsed == parse_value(bytes)
    IN  IF parsed.kind # "Ok" THEN acc
        ELSE [timestamp |->
                 IF acc.timestamp = <<>> \/ parsed.timestamp < acc.timestamp[1]
                 THEN <<parsed.timestamp>> ELSE acc.timestamp,
              user |->
                 IF acc.user = <<>> \/ parsed.user.snapshot < acc.user[1].snapshot
                 THEN <<parsed.user>> ELSE acc.user]

\* a merge step that lets an operand with an equal snapshot replace the payload
MergeStepTieLast(acc, bytes) ==
    LET parsed == parse_value(bytes)
    IN  IF parsed.kind # "Ok" THEN acc
        ELSE [timestamp |->
                 IF acc.timestamp = <<>> \/ parsed.timestamp < acc.timestamp[1]
                 THEN <<parsed.timestamp>> ELSE acc.timestamp,
              user |->
                 IF acc.user = <<>> \/ parsed.user.snapshot >= acc.user[1].snapshot
                 THEN <<parsed.user>> ELSE acc.user]

\* One iteration of the loop over the operands (db.rs:242-268); acc holds
\* current_timestamp and current_user as options.
MergeStep(acc, bytes) ==
    LET parsed == parse_value(bytes)
    IN  IF parsed.kind # "Ok" THEN acc
        ELSE [timestamp |->
                 IF acc.timestamp = <<>> \/ parsed.timestamp < acc.timestamp[1]
                 THEN <<parsed.timestamp>> ELSE acc.timestamp,
              user |->
                 IF acc.user = <<>> \/ parsed.user.snapshot > acc.user[1].snapshot
                 THEN <<parsed.user>> ELSE acc.user]

RECURSIVE MergeFold(_, _)
MergeFold(acc, operands) ==
    IF operands = <<>> THEN acc
    ELSE MergeFold(MergeStep(acc, Head(operands)), Tail(operands))

MergeFinish(existing_val, acc) ==
    IF acc.timestamp # <<>> /\ acc.user # <<>>
    THEN <<EncodeValue(acc.timestamp[1], acc.user[1])>>
    ELSE existing_val

\* merge (db.rs:226-290).  existing_val is an option (<<>> or <<value>>),
\* operands a sequence of values; the existing value is folded first.
merge(existing_val, operands) ==
    MergeFinish(existing_val,
        MergeFold([timestamp |-> <<>>, user |-> <<>>], existing_val \o operands))

(***************************************************************************)
(* The storage engine.  A cell holds the value it has merged so far and    *)
(* the merge operands not yet folded in; a read folds them with the merge  *)
(* operator, and the engine may at any time merge two adjacent operands    *)
(* (partial merge, without the existing value) or fold all of them.        *)
(***************************************************************************)
View(cell) ==
    IF cell.operands = <<>> THEN cell.existing
    ELSE merge(cell.existing, cell.operands)

RECURSIVE SeqLess(_, _)
SeqLess(a, b) ==
    IF b = <<>> THEN FALSE
    ELSE IF a = <<>> THEN TRUE
    ELSE IF Head(a) # Head(b) THEN Head(a) < Head(b)
    ELSE SeqLess(Tail(a), Tail(b))

RECURSIVE SortedKeys(_)
SortedKeys(keys) ==
    IF keys = {} THEN <<>>
    ELSE LET first == CHOOSE k \in keys : \A other \in keys \ {k} : SeqLess(k, other)
         IN  <<first>> \o SortedKeys(keys \ {first})

\* what a forward iterator positioned at `from` yields: (key, value) pairs
Scan(store, from) ==
    LET keys == {k \in DOMAIN store :
                    View(store[k]) # <<>> /\ (k = from \/ SeqLess(from, k))}
        order == SortedKeys(keys)
    IN  [i \in 1..Len(order) |-> <<order[i], View(store[order[i]])[1]>>]

\* a stable sort of a sequence of <<key, item>> pairs by key (sort_by_key)
RECURSIVE SortPairs(_)
SortPairs(pairs) ==
    IF pairs = <<>> THEN <<>>
    ELSE LET sorted == SortPairs(SubSeq(pairs, 1, Len(pairs) - 1))
             p == pairs[Len(pairs)]
             n == Cardinality({i \in 1..Len(sorted) : sorted[i][1] <= p[1]})
         IN  SubSeq(sorted, 1, n) \o <<p>> \o SubSeq(sorted, n + 1, Len(sorted))

\* the sort left out: the entries stay in key order
SortBySnapshotSkipped(users) == users

\* users.sort_by_key(|(_, user)| user.snapshot)
SortBySnapshot(users) ==
    LET sorted == SortPairs([i \in 1..Len(users) |-> <<users[i].user.snapshot, users[i]>>])
    IN  [i \in 1..Len(sorted) |-> sorted[i][2]]

\* The loop of ProfileDb::lookup (db.rs:65-78) over the rest of the scan.
RECURSIVE LookupLoop(_, _, _)
LookupLoop(user_id, rest, users) ==
    IF rest = <<>> THEN [kind |-> "Ok", users |-> users]
    ELSE LET key == Head(rest)[1]
             parsed == parse_value(Head(rest)[2])
         IN  IF key[1] # user_id THEN [kind |-> "Ok", users |-> users]
             ELSE IF parsed.kind # "Ok" THEN [kind |-> parsed.kind, users |-> <<>>]
             ELSE LookupLoop(user_id, Tail(rest),
                     Append(users, [timestamp |-> parsed.timestamp, user |-> parsed.user]))

\* ProfileDb::lookup (db.rs:60-83)
lookup(store, user_id) ==
    LET found == LookupLoop(user_id, Scan(store, <<user_id>>), <<>>)
    IN  IF found.kind = "Ok"
        THEN [kind |-> "Ok", users |-> SortBySnapshot(found.users)]
        ELSE found

(***************************************************************************)
(* ProfileIterator (db.rs:149-210) over the rest of a scan.  An iterator   *)
(* state is [underlying, current, finished]; next returns the new state    *)
(* and the item: <<>> for None, <<batch>> for Some(Ok(batch)).             *)
(***************************************************************************)
\* the inner loop (db.rs:164-189)
RECURSIVE IteratorFill(_, _, _)
IteratorFill(rest, user_id, batch) ==
    IF rest = <<>>
    THEN [state |-> [underlying |-> rest, current |-> <<>>, finished |-> TRUE],
          item |-> <<[kind |-> "Ok", batch |-> batch]>>]
    ELSE LET parsed == parse_value(Head(rest)[2])
             entry == [timestamp |-> parsed.timestamp, user |-> parsed.user]
         IN  IF parsed.kind # "Ok"
             THEN [state |-> [underlying |-> Tail(rest), current |-> <<>>, finished |-> TRUE],
                   item |-> <<[kind |-> parsed.kind, batch |-> <<>>]>>]
             ELSE IF parsed.user.id = user_id
             THEN IteratorFill(Tail(rest), user_id, Append(batch, entry))
             ELSE [state |-> [underlying |-> Tail(rest), current |-> <<entry>>,
                              finished |-> FALSE],
                   item |-> <<[kind |-> "Ok", batch |-> SortBySnapshot(batch)]>>]

\* next whose first call starts the batch without the record it has read
ProfileIterator_next_skip(it) ==
    IF it.current # <<>>
    THEN IteratorFill(it.underlying, it.current[1].user.id, it.current)
    ELSE IF it.finished THEN [state |-> it, item |-> <<>>]
    ELSE IF it.underlying = <<>> THEN [state |-> it, item |-> <<>>]
    ELSE LET parsed == parse_value(Head(it.underlying)[2])
         IN  IF parsed.kind # "Ok"
             THEN [state |-> [it EXCEPT !.underlying = Tail(it.underlying)],
                   item |-> <<[kind |-> parsed.kind, batch |-> <<>>]>>]
             ELSE IteratorFill(Tail(it.underlying), parsed.user.id, <<>>)

\* Iterator::next (db.rs:158-209)
ProfileIterator_next(it) ==
    IF it.current # <<>>
    THEN IteratorFill(it.underlying, it.current[1].user.id, it.current)
    ELSE IF it.finished THEN [state |-> it, item |-> <<>>]
    ELSE IF it.underlying = <<>> THEN [state |-> it, item |-> <<>>]
    ELSE LET parsed == parse_value(Head(it.underlying)[2])
         IN  IF parsed.kind # "Ok"
             THEN [state |-> [it EXCEPT !.underlying = Tail(it.underlying)],
                   item |-> <<[kind |-> parsed.kind, batch |-> <<>>]>>]
             ELSE IteratorFill(Tail(it.underlying), parsed.user.id,
                      <<[timestamp |-> parsed.timestamp, user |-> parsed.user]>>)

\* ProfileDb::iter (db.rs:85-93)
ProfileDb_iter(store) ==
    [underlying |-> Scan(store, <<>>), current |-> <<>>, finished |-> FALSE]

\* the items a caller gets by calling next until it returns None
RECURSIVE Drain(_)
Drain(it) ==
    LET r == ProfileIterator_next(it)
    IN  IF r.item = <<>> THEN <<>> ELSE r.item \o Drain(r.state)

(***************************************************************************)
(* The store's operations.                                                 *)
(***************************************************************************)
RECURSIVE SumLen(_, _)
SumLen(f, keys) ==
    IF keys = {} THEN 0
    ELSE LET k == CHOOSE x \in keys : TRUE
         IN  Len(f[k]) + SumLen(f, keys \ {k})

EmptyCell == [existing |-> <<>>, operands |-> <<>>]
CellOf(store, key) == IF key \in DOMAIN store THEN store[key] ELSE EmptyCell

\* ProfileDb::open on a new directory
InitStore ==
    /\ db = <<>>
    /\ ingested = <<>>
    /\ now = StartTime
    /\ ticks = 0
    /\ op = [name |-> "open"]
    /\ out = <<>>
    /\ IdleQueue
    /\ IdleTasks
    /\ IdleLog

\* ProfileDb::update (db.rs:101-109): hands the engine a merge operand
update(user) ==
    /\ SumLen(ingested, DOMAIN ingested) < MaxUpdates
    /\ LET key == make_key(user.id, user.screen_name)
           value == EncodeValue(user.snapshot, user)
           cell == CellOf(db, key)
       IN  /\ db' = [k \in DOMAIN db \cup {key} |->
                        IF k = key THEN [cell EXCEPT !.operands = Append(@, value)]
                        ELSE db[k]]
           /\ ingested' = [k \in DOMAIN ingested \cup {key} |->
                        IF k = key
                        THEN Append(IF key \in DOMAIN ingested THEN ingested[key] ELSE <<>>,
                                    [user |-> user, at |-> now])
                        ELSE ingested[k]]
    /\ op' = [name |-> "update", user |-> user]
    /\ out' = <<>>
    /\ UNCHANGED <<taskVars, schedVars, clockVars, logVars>>

\* the engine merges two adjacent operands of a key
PartialMerge(key, i) ==
    /\ key \in DOMAIN db
    /\ i \in 1..(Len(db[key].operands) - 1)
    /\ LET ops == db[key].operands
           merged == merge(<<>>, <<ops[i], ops[i + 1]>>)
       IN  /\ merged # <<>>
           /\ db' = [db EXCEPT ![key].operands =
                        SubSeq(ops, 1, i - 1) \o merged \o SubSeq(ops, i + 2, Len(ops))]
    /\ op' = [name |-> "partial_merge", key |-> key]
    /\ UNCHANGED <<taskVars, ingested, out, schedVars, clockVars, logVars>>

\* the engine folds the operands of a key into its stored value
FullMerge(key) ==
    /\ key \in DOMAIN db
    /\ db[key].operands # <<>>
    /\ LET merged == merge(db[key].existing, db[key].operands)
       IN  /\ merged # <<>>
           /\ db' = [db EXCEPT ![key] = [existing |-> merged, operands |-> <<>>]]
    /\ op' = [name |-> "full_merge", key |-> key]
    /\ UNCHANGED <<taskVars, ingested, out, schedVars, clockVars, logVars>>

Lookup(user_id) ==
    /\ out' = lookup(db, user_id)
    /\ op' = [name |-> "lookup", user_id |-> user_id]
    /\ UNCHANGED <<taskVars, storeVars, schedVars, clockVars, logVars>>

\* for batch in db.iter() { ... }
Iterate ==
    /\ out' = Drain(ProfileDb_iter(db))
    /\ op' = [name |-> "iter"]
    /\ UNCHANGED <<taskVars, storeVars, schedVars, clockVars, logVars>>

\* the wall clock advances between the store's operations
TickStore ==
    /\ ticks < MaxTicks
    /\ now' = now + 1
    /\ ticks' = ticks + 1
    /\ op' = [name |-> "tick"]
    /\ UNCHANGED <<taskVars, schedVars, storeVars, logVars, out>>

NextStore ==
    \/ \E user \in Users : update(user)
    \/ \E key \in DOMAIN db : \E i \in 1..MaxUpdates : PartialMerge(key, i)
    \/ \E key \in DOMAIN db : FullMerge(key)
    \/ \E user_id \in Ids : Lookup(user_id)
    \/ Iterate
    \/ TickStore

SpecStore == InitStore /\ [][NextStore]_vars

(***************************************************************************)
(* A store that holds records update did not write (a directory written by *)
(* another program, or damaged): keys and values of any length.  The reads *)
(* and the reducer are applied to it.  A key or a value shorter than 8     *)
(* bytes is modelled by the empty sequence; a value of 8 bytes or more     *)
(* whose payload is not a record of the schema by a timestamp followed by  *)
(* one element.                                                            *)
(***************************************************************************)
MaxOperands == 2
ShortKey == <<>>
ShortValue == <<>>
UndecodableValue == <<StartTime, 0>>

ForeignUsers == {u \in Users : u.screen_name \in {<<97>>, <<98>>}}
StoredValues ==
    {EncodeValue(u.snapshot, u) : u \in {v \in ForeignUsers : v.snapshot = StartTime}}
        \cup {UndecodableValue, ShortValue}
ReducerValues ==
    {EncodeValue(t, u) : t \in Snapshots, u \in {v \in ForeignUsers : v.id = 1}}
        \cup {UndecodableValue, ShortValue}
ForeignKeys == {ShortKey, make_key(1, <<97>>), make_key(2, <<98>>)}

\* the merge operator as the engine calls it: value[0..8] (db.rs:215) is
\* evaluated for the existing value and for every operand, and panics on a
\* value shorter than 8 bytes
merge_call(existing_val, operands) ==
    LET inputs == existing_val \o operands
    IN  IF \E i \in 1..Len(inputs) : parse_value(inputs[i]).kind = "panic"
        THEN [kind |-> "panic", value |-> <<>>]
        ELSE [kind |-> "Ok", value |-> merge(existing_val, operands)]

\* parse_pair (db.rs:137-147): key[0..8] panics on a key shorter than 8 bytes
parse_pair(key, value) ==
    IF Len(key) < 1 THEN [kind |-> "panic"]
    ELSE LET parsed == parse_value(value)
         IN  IF parsed.kind # "Ok" THEN [kind |-> parsed.kind]
             ELSE [kind |-> "Ok", user_id |-> key[1],
                   timestamp |-> parsed.timestamp, user |-> parsed.user]

\* the items ProfileRawIterator yields (db.rs:125-135), up to a panic
RECURSIVE RawDrain(_)
RawDrain(rest) ==
    IF rest = <<>> THEN <<>>
    ELSE LET item == parse_pair(Head(rest)[1], Head(rest)[2])
         IN  IF item.kind = "panic" THEN <<item>>
             ELSE <<item>> \o RawDrain(Tail(rest))

\* ProfileDb::raw_iter (db.rs:95-99)
raw_iter(store) == RawDrain(Scan(store, <<>>))

InitForeign ==
    /\ \E keys \in SUBSET ForeignKeys :
        \E values \in [keys -> StoredValues] :
            db = [k \in keys |-> [existing |-> <<values[k]>>, operands |-> <<>>]]
    /\ ingested = <<>>
    /\ now = StartTime
    /\ ticks = 0
    /\ op = [name |-> "open"]
    /\ out = <<>>
    /\ IdleQueue
    /\ IdleTasks
    /\ IdleLog

\* for item in db.raw_iter() { ... }
RawIterate ==
    /\ out' = raw_iter(db)
    /\ op' = [name |-> "raw_iter"]
    /\ UNCHANGED <<taskVars, storeVars, schedVars, clockVars, logVars>>

NextForeign ==
    \/ \E user_id \in Ids : Lookup(user_id)
    \/ Iterate
    \/ RawIterate

SpecForeign == InitForeign /\ [][NextForeign]_vars

\* the reducer on its own: the engine calls the merge operator on an
\* existing value (or none) and one or more operands, held in input
ReducerInputs ==
    [existing_val : {<<>>} \cup {<<v>> : v \in ReducerValues},
     operands : UNION {[1..n -> ReducerValues] : n \in 1..MaxOperands}]

InitReducer ==
    /\ input \in ReducerInputs
    /\ op = [name |-> "open"]
    /\ out = <<>>
    /\ now = StartTime
    /\ ticks = 0
    /\ log = <<>>
    /\ merges = 0
    /\ IdleStore
    /\ IdleQueue
    /\ IdleTasks

Reduce ==
    /\ out' = merge_call(input.existing_val, input.operands)
    /\ op' = [name |-> "merge"]
    /\ UNCHANGED <<taskVars, storeVars, schedVars, clockVars, logVars>>

SpecReducer == InitReducer /\ [][Reduce]_vars

(***************************************************************************)
(* The deactivation log (db/src/deactivation.rs).                          *)
(*                                                                         *)
(* A file is a sequence of lines, a line the sequence of its fields (what  *)
(* split(',') returns).  An Entry is [status, observed, reversal] with the *)
(* option reversal as <<>> or <<t>>; a Log is the map entries, a function  *)
(* from the user ids it holds to their Vec<Entry>.                         *)
(***************************************************************************)
MaxLines == 2
MaxMerges == 1

\* str::parse on the decimal numerals of the model
DecimalValue ==
    ("100" :> 100) @@ ("0100" :> 100) @@ ("200" :> 200) @@
    ("50" :> 50) @@ ("63" :> 63) @@
    ("1000" :> 1000) @@ ("1200" :> 1200) @@ ("1500" :> 1500) @@ ("2000" :> 2000)
parse_int(field) ==
    IF field \in DOMAIN DecimalValue THEN <<DecimalValue[field]>> ELSE <<>>

\* FormerUserStatus::try_from and FormerUserStatus::code
StatusOfCode == (50 :> "Deactivated") @@ (63 :> "Suspended")
status_try_from(code) ==
    IF code \in DOMAIN StatusOfCode THEN <<StatusOfCode[code]>> ELSE <<>>

\* fields.get(i), with i counted from 0
FieldGet(fields, i) == IF i < Len(fields) THEN <<fields[i + 1]>> ELSE <<>>

\* read_line that looks at the observed time before the status code
read_line_time_first(fields) ==
    LET f0 == FieldGet(fields, 0)
        f1 == FieldGet(fields, 1)
        f2 == FieldGet(fields, 2)
        f3 == FieldGet(fields, 3)
        user_id == IF f0 = <<>> THEN <<>> ELSE parse_int(f0[1])
        code == IF f1 = <<>> THEN <<>> ELSE parse_int(f1[1])
        status == IF code = <<>> THEN <<>> ELSE status_try_from(code[1])
        observed == IF f2 = <<>> THEN <<>> ELSE parse_int(f2[1])
        reversal == IF f3 = <<>> THEN <<>>
                    ELSE IF f3[1] = "" THEN << <<>> >>
                    ELSE IF parse_int(f3[1]) = <<>> THEN <<>>
                    ELSE <<parse_int(f3[1])>>
    IN  IF user_id = <<>> THEN [kind |-> "InvalidUserId", field |-> f0]
        ELSE IF observed = <<>> THEN [kind |-> "InvalidTimestamp", field |-> f2]
        ELSE IF status = <<>> THEN [kind |-> "InvalidTwitterErrorCode", field |-> f1]
        ELSE IF reversal = <<>> THEN [kind |-> "InvalidTimestamp", field |-> f3]
        ELSE [kind |-> "Ok", user_id |-> user_id[1],
              entry |-> [status |-> status[1], observed |-> observed[1],
                         reversal |-> reversal[1]]]

\* the body of the loop of Log::read (deactivation.rs:166-215) on one line
read_line(fields) ==
    LET f0 == FieldGet(fields, 0)
        f1 == FieldGet(fields, 1)
        f2 == FieldGet(fields, 2)
        f3 == FieldGet(fields, 3)
        user_id == IF f0 = <<>> THEN <<>> ELSE parse_int(f0[1])
        code == IF f1 = <<>> THEN <<>> ELSE parse_int(f1[1])
        status == IF code = <<>> THEN <<>> ELSE status_try_from(code[1])
        observed == IF f2 = <<>> THEN <<>> ELSE parse_int(f2[1])
        reversal == IF f3 = <<>> THEN <<>>
                    ELSE IF f3[1] = "" THEN << <<>> >>
                    ELSE IF parse_int(f3[1]) = <<>> THEN <<>>
                    ELSE <<parse_int(f3[1])>>
    IN  IF user_id = <<>> THEN [kind |-> "InvalidUserId", field |-> f0]
        ELSE IF status = <<>> THEN [kind |-> "InvalidTwitterErrorCode", field |-> f1]
        ELSE IF observed = <<>> THEN [kind |-> "InvalidTimestamp", field |-> f2]
        ELSE IF reversal = <<>> THEN [kind |-> "InvalidTimestamp", field |-> f3]
        ELSE [kind |-> "Ok", user_id |-> user_id[1],
              entry |-> [status |-> status[1], observed |-> observed[1],
                         reversal |-> reversal[1]]]

\* Log::read (deactivation.rs:163-218)
RECURSIVE read_from(_, _)
read_from(entries, lines) ==
    IF lines = <<>> THEN [kind |-> "Ok", entries |-> entries]
    ELSE LET parsed == read_line(Head(lines))
         IN  IF parsed.kind # "Ok" THEN parsed
             ELSE read_from(
                    [u \in DOMAIN entries \cup {parsed.user_id} |->
                        IF u = parsed.user_id
                        THEN Append(IF u \in DOMAIN entries THEN entries[u] ELSE <<>>,
                                    parsed.entry)
                        ELSE entries[u]],
                    Tail(lines))

read(lines) == read_from(<<>>, lines)

\* deactivation.rs:45-56, with any in place of all
current_deactivated_any(entries) ==
    {u \in DOMAIN entries : \E i \in 1..Len(entries[u]) : entries[u][i].reversal = <<>>}

\* Log::current_deactivated (deactivation.rs:45-56)
current_deactivated(entries) ==
    {u \in DOMAIN entries : \A i \in 1..Len(entries[u]) : entries[u][i].reversal = <<>>}

\* Log::ever_deactivated (deactivation.rs:58-60)
ever_deactivated(entries) == DOMAIN entries

\* current_suspended that looks at the last entry only
current_suspended_last(entries) ==
    {u \in DOMAIN entries :
        /\ Len(entries[u]) > 0
        /\ entries[u][Len(entries[u])].reversal # <<>>
        /\ entries[u][Len(entries[u])].status = "Suspended"}

\* current_suspended without the test of the reversals
current_suspended_open(entries) ==
    {u \in DOMAIN entries :
        /\ Len(entries[u]) > 0
        /\ entries[u][Len(entries[u])].status = "Suspended"}

\* Log::current_suspended (deactivation.rs:62-75)
current_suspended(entries) ==
    {u \in DOMAIN entries :
        /\ \A i \in 1..Len(entries[u]) : entries[u][i].reversal # <<>>
        /\ Len(entries[u]) > 0
        /\ entries[u][Len(entries[u])].status = "Suspended"}

\* ever_suspended that looks at the first entry only
ever_suspended_first(entries) ==
    {u \in DOMAIN entries :
        Len(entries[u]) > 0 /\ entries[u][1].status = "Suspended"}

\* Log::ever_suspended (deactivation.rs:77-91)
ever_suspended(entries) ==
    {u \in DOMAIN entries : \E i \in 1..Len(entries[u]) : entries[u][i].status = "Suspended"}

\* the body of the loop of update with a comparison of the timestamp with
\* the observation it closes
update_pair_checked(state, pair) ==
    LET user_id == pair[1]
        timestamp == pair[2]
        es == state.entries
    IN  IF user_id \in DOMAIN es /\ Len(es[user_id]) > 0
        THEN IF /\ es[user_id][Len(es[user_id])].reversal = <<>>
                /\ es[user_id][Len(es[user_id])].observed < timestamp
             THEN [state EXCEPT !.entries[user_id][Len(es[user_id])].reversal =
                                    <<timestamp>>]
             ELSE [state EXCEPT !.invalid_pairs = Append(@, pair)]
        ELSE [state EXCEPT !.invalid_pairs = Append(@, pair)]

\* the body of the loop of update with the is_none() test left out
update_pair_overwrite(state, pair) ==
    LET user_id == pair[1]
        timestamp == pair[2]
        es == state.entries
    IN  IF user_id \in DOMAIN es /\ Len(es[user_id]) > 0
        THEN [state EXCEPT !.entries[user_id][Len(es[user_id])].reversal = <<timestamp>>]
        ELSE [state EXCEPT !.invalid_pairs = Append(@, pair)]

\* the body of the loop of Log::update (deactivation.rs:99-115) for one
\* pair; state is [entries, invalid_pairs]
update_pair(state, pair) ==
    LET user_id == pair[1]
        timestamp == pair[2]
        es == state.entries
    IN  IF user_id \in DOMAIN es /\ Len(es[user_id]) > 0
        THEN IF es[user_id][Len(es[user_id])].reversal = <<>>
             THEN [state EXCEPT !.entries[user_id][Len(es[user_id])].reversal =
                                    <<timestamp>>]
             ELSE [state EXCEPT !.invalid_pairs = Append(@, pair)]
        ELSE [state EXCEPT !.invalid_pairs = Append(@, pair)]

RECURSIVE update_fold(_, _)
update_fold(state, reversals) ==
    IF reversals = <<>> THEN state
    ELSE update_fold(update_pair(state, Head(reversals)), Tail(reversals))

\* Log::update (deactivation.rs:93-123): the entries afterwards and the
\* result, Ok(()) or Err(invalid_pairs)
Log_update(entries, reversals) ==
    LET done == update_fold([entries |-> entries, invalid_pairs |-> <<>>], reversals)
    IN  [entries |-> done.entries,
         result |-> IF done.invalid_pairs = <<>>
                    THEN [kind |-> "Ok", pairs |-> <<>>]
                    ELSE [kind |-> "Err", pairs |-> done.invalid_pairs]]

\* Log::validate_entries (deactivation.rs:145-161)
validate_entries(es) ==
    LET valid_pairs ==
            \A i \in 1..(Len(es) - 1) :
                /\ es[i].reversal # <<>>
                /\ es[i].observed < es[i].reversal[1]
                /\ es[i].observed < es[i + 1].observed
    IN  /\ valid_pairs
        /\ (Len(es) > 0 /\ es[Len(es)].reversal # <<>>)
              => es[Len(es)].observed < es[Len(es)].reversal[1]

\* Log::validate (deactivation.rs:125-143); the ids of the error as a set
validate(entries) ==
    LET invalid_user_ids ==
            {u \in DOMAIN entries : ~(Len(entries[u]) > 0 /\ validate_entries(entries[u]))}
    IN  IF invalid_user_ids = {} THEN [kind |-> "Ok", ids |-> {}]
        ELSE [kind |-> "Err", ids |-> invalid_user_ids]

\* new_entries.sort_by_key(|entry| entry.observed)
SortByObserved(es) ==
    LET sorted == SortPairs([i \in 1..Len(es) |-> <<es[i].observed, es[i]>>])
    IN  [i \in 1..Len(sorted) |-> sorted[i][2]]

\* Vec::dedup: drops every element equal to the one before it
RECURSIVE Dedup(_)
Dedup(es) ==
    IF Len(es) < 2 THEN es
    ELSE LET front == Dedup(SubSeq(es, 1, Len(es) - 1))
         IN  IF es[Len(es)] = front[Len(front)] THEN front
             ELSE Append(front, es[Len(es)])

\* the body of the loop of add (deactivation.rs:287-302) for one user
AddEntries(mine, theirs) ==
    LET new_entries == Dedup(SortByObserved(mine \o theirs))
        len == Len(new_entries)
    IN  IF /\ len >= 2
           /\ new_entries[len - 1].status = new_entries[len].status
           /\ new_entries[len - 1].reversal = <<>>
           /\ new_entries[len].reversal = <<>>
        THEN SubSeq(new_entries, 1, len - 1)
        ELSE new_entries

\* impl Add for &Log (deactivation.rs:280-309)
Add(self, other) ==
    [u \in DOMAIN self \cup DOMAIN other |->
        IF u \in DOMAIN other
        THEN AddEntries(IF u \in DOMAIN self THEN self[u] ELSE <<>>, other[u])
        ELSE self[u]]

\* i64::to_string / u64::to_string: the decimal numeral, digit by digit
DigitChar(d) ==
    CASE d = 0 -> "0" [] d = 1 -> "1" [] d = 2 -> "2" [] d = 3 -> "3"
      [] d = 4 -> "4" [] d = 5 -> "5" [] d = 6 -> "6" [] d = 7 -> "7"
      [] d = 8 -> "8" [] d = 9 -> "9"

RECURSIVE to_string(_)
to_string(n) ==
    IF n < 0 THEN "-" \o to_string(0 - n)
    ELSE IF n < 10 THEN DigitChar(n)
    ELSE to_string(n \div 10) \o DigitChar(n % 10)

\* FormerUserStatus::code
status_code(status) == IF status = "Deactivated" THEN 50 ELSE 63

\* a line that leaves the reversal field empty
write_line_open(user_id, entry) ==
    <<to_string(user_id), to_string(status_code(entry.status)),
      to_string(entry.observed), "">>

\* the writeln! of Log::write (deactivation.rs:262-272): the fields of the
\* line, which are joined by commas
write_line(user_id, entry) ==
    <<to_string(user_id), to_string(status_code(entry.status)),
      to_string(entry.observed),
      IF entry.reversal = <<>> THEN "" ELSE to_string(entry.reversal[1])>>

\* the ids of a log in ascending order (entries.sort_by_key(|(user_id, _)| ..))
RECURSIVE SortedIds(_)
SortedIds(ids) ==
    IF ids = {} THEN <<>>
    ELSE LET first == CHOOSE u \in ids : \A v \in ids : u <= v
         IN  <<first>> \o SortedIds(ids \ {first})

\* Log::write (deactivation.rs:254-277): the lines written
RECURSIVE write_users(_, _)
write_users(entries, order) ==
    IF order = <<>> THEN <<>>
    ELSE [i \in 1..Len(entries[Head(order)]) |->
                write_line(Head(order), entries[Head(order)][i])]
         \o write_users(entries, Tail(order))

\* write without the sort: the users in the order the map happens to give,
\* here the descending one
write_unsorted(entries) ==
    LET order == SortedIds(DOMAIN entries)
    IN  write_users(entries, [i \in 1..Len(order) |-> order[Len(order) + 1 - i]])

write(entries) == write_users(entries, SortedIds(DOMAIN entries))

(***************************************************************************)
(* The log's operations, on the files of the model.                        *)
(***************************************************************************)
UserFields == {"100", "200"}
CodeFields == {"63", "50"}
TimeFields == {"1000", "2000"}
ReversalFields == {"", "2000"}
Lines == UserFields \X CodeFields \X TimeFields \X ReversalFields

\* scenario 4 of the specification
Scenario4 ==
    << <<"100", "63", "1000", "">>,
       <<"100", "63", "1500", "2000">>,
       <<"200", "50", "1200", "">> >>

\* a file whose user id is written with a leading zero
LeadingZero == << <<"0100", "63", "1000", "">> >>

\* the reversals handed to update: pairs (user id, time)
MaxReversals == 2
ReversalPairs == {100, 200} \X {1500, 2000}
Reversals == UNION {[1..n -> ReversalPairs] : n \in 1..MaxReversals}

Files == UNION {[1..n -> Lines] : n \in 0..MaxLines} \cup {Scenario4, LeadingZero}

\* Log::read of a file of the model
InitLog ==
    /\ \E file \in Files :
        /\ read(file).kind = "Ok"
        /\ log = read(file).entries
        /\ input = file
        /\ op = [name |-> "read", file |-> file]
    /\ merges = 0
    /\ out = <<>>
    /\ now = 0
    /\ ticks = 0
    /\ IdleQueue
    /\ IdleTasks
    /\ IdleStore

\* log = &log + &Log::read(file)
Merge(file) ==
    /\ merges < MaxMerges
    /\ read(file).kind = "Ok"
    /\ log' = Add(log, read(file).entries)
    /\ merges' = merges + 1
    /\ op' = [name |-> "merge", other |-> read(file).entries]
    /\ out' = <<>>
    /\ input' = <<>>
    /\ UNCHANGED <<taskVars, schedVars, clockVars, storeVars>>

\* log.update(reversals)
Update(reversals) ==
    /\ merges < MaxMerges
    /\ log' = Log_update(log, reversals).entries
    /\ out' = Log_update(log, reversals).result
    /\ merges' = merges + 1
    /\ input' = <<>>
    /\ op' = [name |-> "update", reversals |-> reversals]
    /\ UNCHANGED <<taskVars, schedVars, clockVars, storeVars>>

Query(name, result) ==
    /\ out' = result
    /\ op' = [name |-> name]
    /\ UNCHANGED <<taskVars, logVars, schedVars, clockVars, storeVars>>

Validate == Query("validate", validate(log))
CurrentDeactivated == Query("current_deactivated", current_deactivated(log))
CurrentSuspended == Query("current_suspended", current_suspended(log))
EverSuspended == Query("ever_suspended", ever_suspended(log))
EverDeactivated == Query("ever_deactivated", ever_deactivated(log))

\* log.write(&mut buffer)
Write == Query("write", write(log))

\* Log::read(&buffer) of what log.write(&mut buffer) has written
WriteRead == Query("write_read", read(write(log)))

NextLog ==
    \/ \E file \in Files : Merge(file)
    \/ \E reversals \in Reversals : Update(reversals)
    \/ Validate
    \/ CurrentDeactivated
    \/ CurrentSuspended
    \/ EverSuspended
    \/ EverDeactivated
    \/ Write
    \/ WriteRead

SpecLog == InitLog /\ [][NextLog]_vars

(***************************************************************************)
(* Log::read on files that may be malformed: a line is what split(',')     *)
(* gives, one to four fields, each a numeral, an unknown status code or    *)
(* text that is no numeral.                                                *)
(***************************************************************************)
RawUserFields == {"100", "x"}
RawCodeFields == {"63", "100", "x"}
RawTimeFields == {"1000", "x"}
RawReversalFields == {"", "2000", "x"}
RawLines ==
    {<<u>> : u \in RawUserFields}
        \cup (RawUserFields \X RawCodeFields)
        \cup (RawUserFields \X RawCodeFields \X RawTimeFields)
        \cup (RawUserFields \X RawCodeFields \X RawTimeFields \X RawReversalFields)
RawFiles == UNION {[1..n -> RawLines] : n \in 0..MaxLines}

InitRead ==
    /\ input \in RawFiles
    /\ log = <<>>
    /\ merges = 0
    /\ op = [name |-> "open"]
    /\ out = <<>>
    /\ now = 0
    /\ ticks = 0
    /\ IdleQueue
    /\ IdleTasks
    /\ IdleStore

\* Log::read(file) (deactivation.rs:163-218)
Read ==
    /\ out' = read(input)
    /\ log' = IF read(input).kind = "Ok" THEN read(input).entries ELSE log
    /\ op' = [name |-> "read"]
    /\ UNCHANGED <<taskVars, schedVars, clockVars, storeVars, merges, input>>

SpecRead == InitRead /\ [][Read]_vars

(***************************************************************************)
(* Properties of the scheduler.                                            *)
(***************************************************************************)
ScoreOf(sc, u) == IF u \in DOMAIN sc THEN sc[u] ELSE 1
WithinRecheck(u) ==
    /\ u \in DOMAIN recently_deactivated
    /\ now - recently_deactivated[u] <= DEFAULT_SKIP_DEACTIVATION_RECHECK_SECONDS
AfterRecheck(u) ==
    /\ u \in DOMAIN recently_deactivated
    /\ now - recently_deactivated[u] > DEFAULT_SKIP_DEACTIVATION_RECHECK_SECONDS
Promoted(u) == u \in DOMAIN underlying' /\ underlying'[u] = U32(0)

\* C3 (as claimed): process_removals({u}) within the recheck window after a
\* deactivation of u leaves the queue as it is; after the window, and for an
\* id never deactivated, it promotes u to Reverse(0).
C3_RecheckSkip ==
    [][\A u \in Ids :
        (op'.name = "process_removals" /\ op'.ids = {u}) =>
            /\ WithinRecheck(u) => underlying' = underlying
            /\ AfterRecheck(u) => Promoted(u)
            /\ u \notin DOMAIN recently_deactivated => Promoted(u)]_vars

\* C4 (as claimed): process_additions({u}) on a queued u whose target is
\* larger than 0 replaces u's priority with Reverse(0).
C4_AdditionReplaces ==
    [][\A u \in Ids :
        (/\ op'.name = "process_additions" /\ u \in op'.ids
         /\ u \in DOMAIN underlying /\ U32Less(U32(0), underlying[u]))
            => underlying'[u] = U32(0)]_vars

\* C4 (amended): process_additions leaves the priority of an id that is
\* already queued as it is, whatever its target; it inserts an absent id with
\* Reverse(0), and so a queued id keeps its place in the pop order.
C4_AdditionKeepsQueued ==
    [][\A u \in Ids :
        (op'.name = "process_additions" /\ u \in op'.ids) =>
            /\ u \in DOMAIN underlying'
            /\ underlying'[u] = IF u \in DOMAIN underlying
                                THEN underlying[u] ELSE U32(0)
            /\ \A v \in DOMAIN underlying :
                 (u \in DOMAIN underlying /\ U32Less(underlying[v], underlying[u]))
                    => u \notin PopCandidates(underlying')]_vars

\* an addition has run on an id that was queued with a positive target
C4_Witness ==
    /\ op.name = "process_additions"
    /\ \E u \in op.ids : u \in DOMAIN underlying /\ U32Less(U32(0), underlying[u])

\* C10 (as claimed): after process_updates({u}) at time t with score s, u is
\* queued with target exactly t + 10*86400 / max(s, 1).
C10_UpdateTarget ==
    [][\A u \in Ids :
        (op'.name = "process_updates" /\ u \in op'.ids) =>
            LET s == ScoreOf(scores, u)
                d == IF s > 1 THEN s ELSE 1
            IN  /\ u \in DOMAIN underlying'
                /\ underlying'[u] = U32(now + (MAX_TARGET_DAYS * 86400) \div d)]_vars

(***************************************************************************)
(* Properties of the profile store.                                        *)
(***************************************************************************)
WrittenUsers(k) == {ingested[k][i].user : i \in 1..Len(ingested[k])}
MaxSnapshot(k) ==
    CHOOSE m \in {u.snapshot : u \in WrittenUsers(k)} :
        \A u \in WrittenUsers(k) : u.snapshot <= m
MinSnapshot(k) ==
    CHOOSE m \in {u.snapshot : u \in WrittenUsers(k)} :
        \A u \in WrittenUsers(k) : m <= u.snapshot
MinIngestTime(k) ==
    CHOOSE t \in {ingested[k][i].at : i \in 1..Len(ingested[k])} :
        \A i \in 1..Len(ingested[k]) : t <= ingested[k][i].at

\* the entry that a lookup result holds for key k, as a set (empty if none)
EntriesFor(result, k) ==
    {e \in Range(result.users) : make_key(e.user.id, e.user.screen_name) = k}

\* C1 (as claimed): lookup returns for every written key an entry whose
\* payload is a written profile of maximum snapshot and whose first_observed
\* is the earliest wall-clock time at which an update of the key was made.
C1_FirstObservedIsIngestTime ==
    op.name = "lookup" =>
        /\ out.kind = "Ok"
        /\ \A k \in DOMAIN ingested : k[1] = op.user_id =>
             \E e \in EntriesFor(out, k) :
                /\ e.user \in WrittenUsers(k)
                /\ e.user.snapshot = MaxSnapshot(k)
                /\ e.timestamp = MinIngestTime(k)

\* C1 (amended): lookup returns for every written key an entry whose payload
\* is a written profile of maximum snapshot and whose first_observed is the
\* minimum of the snapshots written to the key.
C1_FirstObservedIsMinSnapshot ==
    op.name = "lookup" =>
        /\ out.kind = "Ok"
        /\ \A k \in DOMAIN ingested : k[1] = op.user_id =>
             \E e \in EntriesFor(out, k) :
                /\ e.user \in WrittenUsers(k)
                /\ e.user.snapshot = MaxSnapshot(k)
                /\ e.timestamp = MinSnapshot(k)

\* a lookup has returned a key that was updated at least twice, the older
\* snapshot arriving last and after the clock has advanced
C1_Witness ==
    /\ op.name = "lookup"
    /\ \E k \in DOMAIN ingested :
        /\ k[1] = op.user_id
        /\ Len(ingested[k]) >= 2
        /\ ingested[k][2].user.snapshot < ingested[k][1].user.snapshot
        /\ ingested[k][2].at > ingested[k][1].at
        /\ \E e \in EntriesFor(out, k) : e.timestamp = ingested[k][2].user.snapshot

\* the values written to key k, in the arrival order f
ArrivalOrder(k, f) ==
    [i \in 1..Len(ingested[k]) |->
        EncodeValue(ingested[k][f[i]].user.snapshot, ingested[k][f[i]].user)]

\* no two updates of k carry the maximum snapshot with different payloads
TieFree(k) ==
    \A u, v \in WrittenUsers(k) :
        (u.snapshot = MaxSnapshot(k) /\ v.snapshot = MaxSnapshot(k)) => u = v

\* C2 (as claimed): the cell of a key is the same for every arrival order of
\* its updates and every grouping of them into partial merges.
C2_ReducerOrderFree ==
    \A k \in DOMAIN db :
        \A f \in Permutations(1..Len(ingested[k])) :
            merge(<<>>, ArrivalOrder(k, f)) = View(db[k])

\* C2 (amended): for every arrival order and grouping the cell has the same
\* first_observed and the same snapshot; the payload is the same too unless
\* two updates carry the maximum snapshot with different payloads (then the
\* one that arrived first among them is kept).
C2_ReducerOrderFreeUpToTies ==
    \A k \in DOMAIN db :
        \A f \in Permutations(1..Len(ingested[k])) :
            LET r == parse_value(merge(<<>>, ArrivalOrder(k, f))[1])
                v == parse_value(View(db[k])[1])
            IN  /\ r.kind = "Ok" /\ v.kind = "Ok"
                /\ r.timestamp = v.timestamp
                /\ r.user.snapshot = v.user.snapshot
                /\ TieFree(k) => r.user = v.user

\* the engine has merged a key whose updates arrived with the snapshots out
\* of order and two of which tie on the maximum with different payloads
C2_Witness ==
    /\ op.name \in {"partial_merge", "full_merge"}
    /\ Len(ingested[op.key]) = 3
    /\ ~TieFree(op.key)
    /\ MinSnapshot(op.key) < MaxSnapshot(op.key)
    /\ ingested[op.key][1].user.snapshot = MaxSnapshot(op.key)

\* C8 (as claimed): every batch that iter() yields is sorted ascending by
\* snapshot.
C8_BatchesSorted ==
    op.name = "iter" =>
        \A b \in 1..Len(out) :
            out[b].kind = "Ok" =>
                \A i, j \in 1..Len(out[b].batch) :
                    i < j => out[b].batch[i].user.snapshot <= out[b].batch[j].user.snapshot

(***************************************************************************)
(* Properties of the deactivation log.                                     *)
(***************************************************************************)
\* validity of a user's entries as the specification words it
ChainValid(es) ==
    /\ Len(es) > 0
    /\ \A i \in 1..(Len(es) - 1) :
        /\ es[i].reversal # <<>>
        /\ es[i].observed < es[i].reversal[1]
        /\ es[i].reversal[1] < es[i + 1].observed
    /\ es[Len(es)].reversal # <<>> => es[Len(es)].observed < es[Len(es)].reversal[1]

\* C5 (as claimed): validate returns Ok exactly when every user's entries
\* are non-empty and chained observed < reversal < next observed, and
\* otherwise Err with exactly the users that are not.
C5_ValidateChain ==
    op.name = "validate" =>
        /\ out.kind = "Ok" <=> \A u \in DOMAIN log : ChainValid(log[u])
        /\ out.kind = "Err" => out.ids = {u \in DOMAIN log : ~ChainValid(log[u])}

\* C6 (as claimed): L1 + L2 = L2 + L1.
C6_AddCommutative ==
    [][op'.name = "merge" => log' = Add(op'.other, log)]_vars

\* the logs of the files of at most one line
OneLineLogs == {read(<<>>).entries} \cup {read(<<line>>).entries : line \in Lines}

\* C7 (as claimed): (L1 + L2) + L3 = L1 + (L2 + L3).
C7_AddAssociative ==
    [][op'.name = "merge" =>
        \A third \in OneLineLogs :
            Add(log', third) = Add(log, Add(op'.other, third))]_vars

Scenario4Log == read(Scenario4).entries

\* C9 (as claimed): on the log of scenario 4, ever_suspended is {100},
\* current_suspended is empty and current_deactivated is {100, 200}.
C9_Scenario4Views ==
    log = Scenario4Log =>
        /\ op.name = "ever_suspended" => out = {100}
        /\ op.name = "current_suspended" => out = {}
        /\ op.name = "current_deactivated" => out = {100, 200}

\* C9 (amended): on the log of scenario 4, ever_suspended is {100},
\* current_suspended is empty and current_deactivated is {200}: user 100 has
\* a reversed entry, and only users without any reversed entry are reported.
C9_Scenario4ViewsAllOpen ==
    log = Scenario4Log =>
        /\ op.name = "ever_suspended" => out = {100}
        /\ op.name = "current_suspended" => out = {}
        /\ op.name = "current_deactivated" => out = {200}

\* current_deactivated has been asked of the log of scenario 4
C9_Witness ==
    /\ log = Scenario4Log
    /\ merges = 0
    /\ op.name = "current_deactivated"
    /\ out = {200}

(***************************************************************************)
(* Properties of the scheduler under concurrent callers.                   *)
(***************************************************************************)
Branches == {"a", "b"}
HeldByTask(t) == HeldBy(t, "a") \cup HeldBy(t, "b")
NestedWait(t, br) == AwaitedBy(t, br) # {} /\ HeldBy(t, br) # {}

\* C11 as claimed: an operation other than process_removals never holds
\* two of the three locks at the same time, and no branch of any operation
\* waits for a lock while it holds another
C11_LockDiscipline ==
    \A t \in Tasks :
        /\ tasks[t].name # "process_removals" => Cardinality(HeldByTask(t)) <= 1
        /\ \A br \in Branches : ~NestedWait(t, br)

\* C11 as amended: only the operations built on join! (process_removals,
\* process_additions) and process_updates ever hold two locks at once; only
\* process_updates waits for a lock while holding another, and then it
\* holds the read lock of scores and waits for the queue; whoever holds the
\* queue or recently_deactivated waits for nothing
C11_LockDisciplineBut ==
    \A t \in Tasks :
        /\ tasks[t].name \notin {"process_removals", "process_additions",
                                 "process_updates"}
              => Cardinality(HeldByTask(t)) <= 1
        /\ \A br \in Branches :
              NestedWait(t, br) =>
                  /\ tasks[t].name = "process_updates"
                  /\ HeldBy(t, br) = {"scores"}
                  /\ <<t, br>> \in locks["scores"].readers
                  /\ AwaitedBy(t, br) = {"underlying"}

\* process_updates holds the read lock of scores and waits for the queue,
\* which another task holds
C11_Witness ==
    \E t \in Tasks, u \in Tasks :
        /\ t # u
        /\ tasks[t].name = "process_updates"
        /\ NestedWait(t, "a")
        /\ locks["underlying"].writers = {<<u, "a">>}

\* both tasks ran next_batch and nothing else was called
OnlyTwoBatches(t, u) ==
    /\ t # u
    /\ calls = 2
    /\ tasks[t].name = "next_batch"
    /\ tasks[u].name = "next_batch"

NoRepeat(b) == \A i, j \in 1..Len(b) : b[i] = b[j] => i = j

\* C12: two concurrent next_batch calls, nothing else interleaved, return
\* disjoint sets of ids, and no id occurs twice within one batch
C12_DisjointBatches ==
    \A t \in Tasks, u \in Tasks :
        OnlyTwoBatches(t, u) =>
            /\ Range(tasks[t].batch) \cap Range(tasks[u].batch) = {}
            /\ NoRepeat(tasks[t].batch)

\* two next_batch calls have both returned an id
C12_Witness ==
    \E t \in Tasks, u \in Tasks :
        /\ OnlyTwoBatches(t, u)
        /\ Finished(t) /\ Finished(u)
        /\ tasks[t].batch # <<>> /\ tasks[u].batch # <<>>
        /\ Len(tasks[t].batch) = 1 /\ Len(tasks[u].batch) = 1

\* the score an id has, 0 when it has none (entry().or_default())
StoredScore(id) == IF id \in DOMAIN scores THEN scores[id] ELSE 0

\* task t's decrement_scores closure runs in this step
Decrements(t) ==
    /\ InClosure(t, "process_removals", "b", "scores")
    /\ tasks'[t].b.at = "done"

\* C13: under every interleaving of the operations no score is ever
\* negative, and the decrement of process_removals takes exactly 1 from the
\* score of every listed id whose score is positive and leaves a score of 0
\* (or no score) at 0, whatever the deactivation-recheck kept of the ids
C13_ScoresSaturate ==
    [][/\ \A id \in DOMAIN scores' : scores'[id] >= 0
       /\ \A t \in Tasks :
            Decrements(t) =>
                \A id \in tasks[t].ids :
                    /\ id \in DOMAIN scores'
                    /\ scores'[id] = IF StoredScore(id) > 0
                                     THEN StoredScore(id) - 1 ELSE 0]_vars

\* a process_removals whose recheck dropped id 1 (deactivated more than the
\* window ago) has decremented the scores of id 1, which was positive, and
\* of id 2, which had none
C13_Witness ==
    \E t \in Tasks :
        /\ tasks[t].name = "process_removals"
        /\ tasks[t].ids = {1, 2}
        /\ tasks[t].b.at = "done"
        /\ tasks[t].a = PcWait("underlying", "write")
        /\ 1 \notin tasks[t].kept
        /\ calls = 2
        /\ 1 \in DOMAIN scores /\ scores[1] = MaxScore - 1
        /\ 2 \in DOMAIN scores /\ scores[2] = 0
        /\ 2 \notin DOMAIN underlying

(***************************************************************************)
(* Properties of the scheduler's operations, one at a time.                *)
(***************************************************************************)
Min(a, b) == IF a < b THEN a ELSE b

\* C14: next_batch(count) removes and returns exactly min(count, size) ids,
\* in non-decreasing order of target, every id left in the queue having a
\* target no smaller than that of any returned id; the rest of the queue is
\* unchanged, and an empty queue gives the empty batch
C14_NextBatch ==
    [][op'.name = "next_batch" =>
        LET b == op'.batch IN
        /\ Len(b) = Min(op'.count, Cardinality(DOMAIN underlying))
        /\ NoRepeat(b)
        /\ Range(b) \subseteq DOMAIN underlying
        /\ underlying' = [i \in DOMAIN underlying \ Range(b) |-> underlying[i]]
        /\ \A i, j \in 1..Len(b) :
              i < j => U32LessEq(underlying[b[i]], underlying[b[j]])
        /\ \A i \in 1..Len(b), left \in DOMAIN underlying' :
              U32LessEq(underlying[b[i]], underlying[left])
        /\ (underlying = << >>) => (b = << >>)]_vars

\* next_batch(1) took one id of a queue of two
C14_Witness ==
    /\ op.name = "next_batch"
    /\ op.count = 1
    /\ Len(op.batch) = 1
    /\ Cardinality(DOMAIN underlying) = 1
    /\ \A i \in DOMAIN underlying : underlying[i] # U32_MAX

\* C15: after process_additions, an id of the call that was absent from
\* the queue is in the queue with priority Reverse(0), and its score is one
\* more than before (1 if it had no score)
C15_AdditionInsertsAbsent ==
    [][op'.name = "process_additions" =>
        \A u \in op'.ids :
            u \notin DOMAIN underlying =>
                /\ u \in DOMAIN underlying'
                /\ underlying'[u] = U32(0)
                /\ u \in DOMAIN scores'
                /\ scores'[u] = StoredScore(u) + 1]_vars

\* process_additions({2}) has put the unknown id 2 at the head of a queue
\* that holds id 1
C15_Witness ==
    /\ op.name = "process_additions"
    /\ op.ids = {2}
    /\ DOMAIN underlying = {1, 2}
    /\ underlying[2] = U32(0)
    /\ underlying[1] # U32(0)
    /\ scores = (1 :> MaxScore) @@ (2 :> 1)

(***************************************************************************)
(* Further properties of the profile store.                                *)
(***************************************************************************)
\* what a read of key k returns, parsed
Stored(store, k) == parse_value(View(store[k])[1])

\* C16: per key the stored snapshot never decreases and the stored
\* first_observed never increases, whatever the store does (update, partial
\* or full merge); and a lookup of an id returns, for each of its keys and
\* each update made to that key so far, an entry of that key whose snapshot
\* is at least the updated profile's
C16_Monotonic ==
    [][/\ \A k \in DOMAIN db :
            /\ k \in DOMAIN db'
            /\ Stored(db', k).kind = "Ok"
            /\ Stored(db', k).user.snapshot >= Stored(db, k).user.snapshot
            /\ Stored(db', k).timestamp <= Stored(db, k).timestamp
       /\ op'.name = "lookup" =>
            /\ out'.kind = "Ok"
            /\ \A k \in DOMAIN ingested' : k[1] = op'.user_id =>
                \A i \in 1..Len(ingested'[k]) :
                    \E e \in EntriesFor(out', k) :
                        e.user.snapshot >= ingested'[k][i].user.snapshot]_vars

\* a key was updated with a newer and then with an older snapshot, the
\* engine folded its operands, and a lookup has returned the newer one
C16_Witness ==
    /\ op.name = "lookup"
    /\ \E k \in DOMAIN ingested :
        /\ k[1] = op.user_id
        /\ Len(ingested[k]) = 2
        /\ ingested[k][2].user.snapshot < ingested[k][1].user.snapshot
        /\ db[k].operands = <<>>
        /\ \E e \in EntriesFor(out, k) :
            /\ e.user.snapshot = ingested[k][1].user.snapshot
            /\ e.timestamp = ingested[k][2].user.snapshot

\* every profile written so far, and the handle (id, lowercased screen
\* name) of a profile
AllWritten == UNION {WrittenUsers(k) : k \in DOMAIN ingested}
HandleOf(user) == <<user.id, to_lowercase(user.screen_name)>>
WrittenAs(h) == {u \in AllWritten : HandleOf(u) = h}
Positions(users, h) == {i \in 1..Len(users) : HandleOf(users[i].user) = h}

\* C17: the store holds one cell per (id, lowercased screen name) written,
\* and a lookup of an id returns exactly one entry for each such handle of
\* the id, carrying a written payload of the largest snapshot written to it
C17_OneEntryPerHandle ==
    /\ Cardinality(DOMAIN db) = Cardinality({HandleOf(u) : u \in AllWritten})
    /\ op.name = "lookup" =>
        /\ out.kind = "Ok"
        /\ \A h \in {HandleOf(u) : u \in AllWritten} : h[1] = op.user_id =>
            /\ Cardinality(Positions(out.users, h)) = 1
            /\ \A i \in Positions(out.users, h) :
                /\ out.users[i].user \in WrittenAs(h)
                /\ \A u \in WrittenAs(h) :
                      u.snapshot <= out.users[i].user.snapshot

\* "A" was written, then "a" with a larger snapshot; the lookup returns the
\* single entry "a"
C17_Witness ==
    /\ op.name = "lookup"
    /\ \E k \in DOMAIN ingested :
        /\ k[1] = op.user_id
        /\ Len(ingested[k]) = 2
        /\ ingested[k][1].user.screen_name = <<65>>
        /\ ingested[k][2].user.screen_name = <<97>>
        /\ ingested[k][1].user.snapshot < ingested[k][2].user.snapshot
        /\ out.kind = "Ok"
        /\ Len(out.users) = 1
        /\ out.users[1].user = ingested[k][2].user

\* the handles written for id U, and what lookup(U) must hold whatever the
\* order: one entry per handle of U, nothing of another id, nothing at all
\* when U has no record
HandlesOf(U) == {HandleOf(u) : u \in {w \in AllWritten : w.id = U}}
LookupHoldsHandles(U, result) ==
    /\ result.kind = "Ok"
    /\ Len(result.users) = Cardinality(HandlesOf(U))
    /\ \A h \in HandlesOf(U) : Cardinality(Positions(result.users, h)) = 1
    /\ \A i \in 1..Len(result.users) : result.users[i].user.id = U
    /\ HandlesOf(U) = {} => result.users = <<>>

\* C18 as claimed: lookup(U) returns one entry per handle of U and no other
\* entry, sorted strictly ascending by snapshot
C18_LookupStrictlySorted ==
    op.name = "lookup" =>
        /\ LookupHoldsHandles(op.user_id, out)
        /\ \A i, j \in 1..Len(out.users) :
              i < j => out.users[i].user.snapshot < out.users[j].user.snapshot

\* C18 as amended: lookup(U) returns one entry per handle of U and no other
\* entry, sorted ascending by snapshot; entries of equal snapshot stay in
\* the order of their keys
C18_LookupSorted ==
    op.name = "lookup" =>
        /\ LookupHoldsHandles(op.user_id, out)
        /\ \A i, j \in 1..Len(out.users) :
              i < j =>
                LET a == out.users[i].user
                    b == out.users[j].user
                IN  \/ a.snapshot < b.snapshot
                    \/ /\ a.snapshot = b.snapshot
                       /\ SeqLess(make_key(a.id, a.screen_name),
                                  make_key(b.id, b.screen_name))

\* lookup(1) on a store that holds "a" and "b" of id 1, "a" with the newer
\* snapshot, and a record of id 2: the result is "b", then "a"
C18_Witness ==
    /\ op.name = "lookup"
    /\ op.user_id = 1
    /\ HandlesOf(2) # {}
    /\ out.kind = "Ok"
    /\ Len(out.users) = 2
    /\ out.users[1].user.screen_name = <<98>>
    /\ out.users[2].user.screen_name = <<97>>
    /\ out.users[1].user.snapshot < out.users[2].user.snapshot

\* the places <<item, index>> at which the batches of items hold handle h
Places(items, h) ==
    {p \in UNION {{<<n, i>> : i \in 1..Len(items[n].batch)} : n \in 1..Len(items)} :
        HandleOf(items[p[1]].batch[p[2]].user) = h}

\* C19: on a store of decodable records, the batches iter() yields until
\* None hold every stored (id, handle) exactly once, each batch is of one
\* id, and the ids of the batches ascend strictly (so an id has one batch)
C19_IterExact ==
    op.name = "iter" =>
        /\ \A n \in 1..Len(out) :
            /\ out[n].kind = "Ok"
            /\ out[n].batch # <<>>
            /\ \A i \in 1..Len(out[n].batch) :
                  out[n].batch[i].user.id = out[n].batch[1].user.id
        /\ \A n, k \in 1..Len(out) :
              n < k => out[n].batch[1].user.id < out[k].batch[1].user.id
        /\ \A h \in {HandleOf(u) : u \in AllWritten} :
              Cardinality(Places(out, h)) = 1
        /\ \A n \in 1..Len(out) : \A i \in 1..Len(out[n].batch) :
              out[n].batch[i].user \in AllWritten

\* iter() over a store with two handles of id 1 and one of id 2 has
\* yielded two batches
C19_Witness ==
    /\ op.name = "iter"
    /\ Len(out) = 2
    /\ Len(out[1].batch) = 2
    /\ Len(out[2].batch) = 1
    /\ out[1].batch[1].user.id = 1
    /\ out[2].batch[1].user.id = 2

(***************************************************************************)
(* Further properties of the deactivation log.                             *)
(***************************************************************************)
\* C20: for a valid log L (its timestamps are whole seconds), reading what
\* write(L) wrote succeeds and gives L: the same users, each with the same
\* entries in the same order
C20_WriteReadRoundTrip ==
    (op.name = "write_read" /\ validate(log).kind = "Ok") =>
        /\ out.kind = "Ok"
        /\ out.entries = log

\* a valid log of two users, one with a reversed and then an open entry,
\* has been written and read back
C20_Witness ==
    /\ op.name = "write_read"
    /\ validate(log).kind = "Ok"
    /\ DOMAIN log = {100, 200}
    /\ Len(log[100]) = 2
    /\ log[100][1].reversal # <<>>
    /\ log[100][2].reversal = <<>>
    /\ out.kind = "Ok"

\* the lines of a file are grouped by ascending user id
Grouped(file) ==
    \A i, j \in 1..Len(file) :
        i < j => DecimalValue[file[i][1]] <= DecimalValue[file[j][1]]

\* every line has four fields, each the numeral to_string prints for its
\* value (no sign, no leading zero), the last one possibly empty
CanonicalField(f) == f \in DOMAIN DecimalValue /\ to_string(DecimalValue[f]) = f
Canonical(file) ==
    \A i \in 1..Len(file) :
        /\ Len(file[i]) = 4
        /\ \A k \in 1..3 : CanonicalField(file[i][k])
        /\ file[i][4] = "" \/ CanonicalField(file[i][4])

\* the entries that the lines of user u spell, in line order
RECURSIVE LinesOf(_, _)
LinesOf(lines, u) ==
    IF lines = <<>> THEN <<>>
    ELSE IF read_line(Head(lines)).kind = "Ok" /\ read_line(Head(lines)).user_id = u
    THEN <<read_line(Head(lines)).entry>> \o LinesOf(Tail(lines), u)
    ELSE LinesOf(Tail(lines), u)

\* write emits one line per entry, users ascending, a user's entries in
\* their order
WriteInOrder(lines, entries) ==
    /\ Len(lines) = SumLen(entries, DOMAIN entries)
    /\ Grouped(lines)
    /\ \A u \in DOMAIN entries : LinesOf(lines, u) = entries[u]

\* C21 as claimed: write emits one line per entry, users ascending, entries
\* in order; and for an input grouped by ascending user id, writing the log
\* read from it reproduces the input's lines
C21_WriteReproduces ==
    op.name = "write" =>
        /\ WriteInOrder(out, log)
        /\ (merges = 0 /\ Grouped(input)) => out = input

\* C21 as amended: the same, for an input that is grouped by ascending user
\* id and whose lines are canonical
C21_WriteReproducesCanonical ==
    op.name = "write" =>
        /\ WriteInOrder(out, log)
        /\ (merges = 0 /\ Grouped(input) /\ Canonical(input)) => out = input

\* the three lines of scenario 4 have been read and written back
C21_Witness ==
    /\ op.name = "write"
    /\ merges = 0
    /\ input = Scenario4
    /\ out = Scenario4

\* the entries of user u that are open, and the statuses u has had
OpenEntries(u) == {i \in 1..Len(log[u]) : log[u][i].reversal = <<>>}
StatusesOf(u) == {log[u][i].status : i \in 1..Len(log[u])}
LastIsSuspended(u) == Len(log[u]) > 0 /\ log[u][Len(log[u])].status = "Suspended"

\* C22: each derived view returns what its definition says, on every log:
\* current_deactivated the users without a reversed entry, ever_deactivated
\* all users, ever_suspended the users with a Suspended entry, and
\* current_suspended the users whose last entry is Suspended and who have no
\* open entry
C22_Views ==
    /\ op.name = "current_deactivated" =>
          out = {u \in DOMAIN log : OpenEntries(u) = 1..Len(log[u])}
    /\ op.name = "ever_deactivated" => out = DOMAIN log
    /\ op.name = "ever_suspended" =>
          out = {u \in DOMAIN log : "Suspended" \in StatusesOf(u)}
    /\ op.name = "current_suspended" =>
          out = {u \in DOMAIN log : LastIsSuspended(u) /\ OpenEntries(u) = {}}

\* current_suspended has returned user 100 and left out user 200, whose
\* last entry is Suspended and reversed but who has an open entry before it
C22_Witness ==
    /\ op.name = "current_suspended"
    /\ out = {100}
    /\ 200 \in DOMAIN log
    /\ LastIsSuspended(200)
    /\ log[200][Len(log[200])].reversal # <<>>
    /\ OpenEntries(200) # {}

\* C23: on every log reached by read, update and merge, ever_suspended
\* holds current_suspended, and ever_deactivated holds current_deactivated
\* and ever_suspended
C23_ViewInclusions ==
    /\ current_suspended(log) \subseteq ever_suspended(log)
    /\ (current_deactivated(log) \cup ever_suspended(log)) \subseteq ever_deactivated(log)

\* a log that was updated holds a user who is currently suspended and whose
\* first entry is a deactivation
C23_Witness ==
    /\ op.name = "update"
    /\ \E u \in current_suspended(log) : log[u][1].status = "Deactivated"

\* pair k of the reversals is applied: its user's last entry is open in the
\* log before the call and no earlier pair names the same user
Applied(entries, reversals, k) ==
    LET u == reversals[k][1] IN
    /\ u \in DOMAIN entries
    /\ Len(entries[u]) > 0
    /\ entries[u][Len(entries[u])].reversal = <<>>
    /\ \A j \in 1..(k - 1) : reversals[j][1] # u

\* the pairs of the reversals that are not applied, in their order
RECURSIVE Rejected(_, _, _)
Rejected(entries, reversals, k) ==
    IF k > Len(reversals) THEN <<>>
    ELSE (IF Applied(entries, reversals, k) THEN <<>> ELSE <<reversals[k]>>)
         \o Rejected(entries, reversals, k + 1)

\* C24: update applies a pair (u, t) iff u's last entry is open when the
\* pair is reached, setting that entry's reversal to t; every other pair
\* changes nothing and is reported; the result is Ok iff no pair was
\* rejected, else Err with the rejected pairs in input order; the applied
\* pairs stay applied either way and nothing else in the log changes
C24_Update ==
    [][op'.name = "update" =>
        LET rs == op'.reversals IN
        /\ DOMAIN log' = DOMAIN log
        /\ \A u \in DOMAIN log :
            /\ Len(log'[u]) = Len(log[u])
            /\ \A i \in 1..Len(log[u]) :
                log'[u][i] =
                    IF i = Len(log[u]) /\ \E k \in 1..Len(rs) :
                            rs[k][1] = u /\ Applied(log, rs, k)
                    THEN LET k == CHOOSE k \in 1..Len(rs) :
                                    rs[k][1] = u /\ Applied(log, rs, k)
                         IN  [log[u][i] EXCEPT !.reversal = <<rs[k][2]>>]
                    ELSE log[u][i]
        /\ out'.pairs = Rejected(log, rs, 1)
        /\ out'.kind = IF Rejected(log, rs, 1) = <<>> THEN "Ok" ELSE "Err"]_vars

\* update was given two pairs for user 100, whose last entry was open: the
\* first is applied, the second is returned in the error
C24_Witness ==
    /\ op.name = "update"
    /\ op.reversals = << <<100, 1500>>, <<100, 2000>> >>
    /\ out = [kind |-> "Err", pairs |-> << <<100, 2000>> >>]
    /\ 100 \in DOMAIN log
    /\ log[100][Len(log[100])].reversal = <<1500>>

\* C25: process_deactivations(ids) records the current time for every
\* listed id and leaves the queue and the scores as they were
C25_DeactivationsFrame ==
    [][op'.name = "process_deactivations" =>
        /\ \A id \in op'.ids :
            id \in DOMAIN recently_deactivated' /\ recently_deactivated'[id] = now
        /\ underlying' = underlying
        /\ scores' = scores]_vars

\* process_deactivations ran after the clock advanced, on an id that is
\* queued and scored, and recorded the advanced time for it
C25_Witness ==
    /\ op.name = "process_deactivations"
    /\ now > StartTime
    /\ \E id \in op.ids :
        /\ id \in DOMAIN underlying
        /\ id \in DOMAIN scores
        /\ recently_deactivated[id] = now

\* C26: under fair scheduling of the tasks every call that was started
\* completes, and when it has completed it holds none of the locks
C26_DeadlockFree ==
    \A t \in Tasks :
        (~Finished(t)) ~> (Finished(t) /\ HeldByTask(t) = {})

\* process_updates of one task holds the read lock of scores and waits for
\* the queue, which process_additions of the other task holds while its
\* second arm waits for the write lock of scores
C26_Witness ==
    \E t, u \in Tasks :
        /\ t # u
        /\ tasks[t].name = "process_updates"
        /\ HeldBy(t, "a") = {"scores"}
        /\ AwaitedBy(t, "a") = {"underlying"}
        /\ tasks[u].name = "process_additions"
        /\ HeldBy(u, "a") = {"underlying"}
        /\ AwaitedBy(u, "b") = {"scores"}

\* C27 as claimed: an id that is absent from the queue becomes a member
\* only by process_additions or process_updates; process_removals changes
\* only ids that are queued already, to Reverse(0)
C27_MembershipSources ==
    [][/\ \A id \in Ids :
            (id \notin DOMAIN underlying /\ id \in DOMAIN underlying')
                => op'.name \in {"process_additions", "process_updates"}
       /\ op'.name = "process_removals" =>
            /\ DOMAIN underlying' = DOMAIN underlying
            /\ \A id \in DOMAIN underlying :
                underlying'[id] \in {underlying[id], U32(0)}]_vars

\* the id of the race, the state it started in, and its end
RaceId == CHOOSE u \in Ids : op.ids = {u}
RaceOver == op.name = "race" /\ \A t \in Tasks : Finished(t)
PriorScored == RaceId \in DOMAIN op.scores
PriorScore == IF PriorScored THEN op.scores[RaceId] ELSE 0
PriorQueued == RaceId \in DOMAIN op.underlying
RaceKept ==
    \/ RaceId \notin DOMAIN op.recently_deactivated
    \/ StartTime - op.recently_deactivated[RaceId]
            <= DEFAULT_SKIP_DEACTIVATION_RECHECK_SECONDS

\* the state the two calls leave when process_additions runs as a whole
\* before process_removals, and the other way round
AdditionsFirst ==
    [scores |-> decrement_scores(increment_scores(op.scores, op.ids), op.ids),
     underlying |-> prioritize(prioritize_new(op.underlying, op.ids),
                        remove_recently_deactivated(op.recently_deactivated,
                                                    op.ids, StartTime), U32(0))]
RemovalsFirst ==
    [scores |-> increment_scores(decrement_scores(op.scores, op.ids), op.ids),
     underlying |-> prioritize_new(prioritize(op.underlying,
                        remove_recently_deactivated(op.recently_deactivated,
                                                    op.ids, StartTime), U32(0)),
                        op.ids)]

\* C28 as claimed: whatever state u was in, every interleaving of
\* process_additions({u}) and process_removals({u}) ends with the same
\* score and the same priority of u; the two runs that do not interleave
\* are among them, so every end equals both of theirs
C28_OrderIndependent ==
    RaceOver =>
        /\ scores = AdditionsFirst.scores
        /\ scores = RemovalsFirst.scores
        /\ underlying = AdditionsFirst.underlying
        /\ underlying = RemovalsFirst.underlying

\* C28 as amended: the priority of u is the same for every interleaving
\* (Reverse(0) when u was absent or survives the deactivation filter, else
\* what it was), and so is the score when it was positive (it is what it
\* was); a score that was unset or 0 ends as 0 or as 1, depending on which
\* of the two score closures ran first
C28_OrderIndependentBut ==
    RaceOver =>
        /\ RaceId \in DOMAIN underlying
        /\ underlying[RaceId] =
                IF PriorQueued /\ ~RaceKept THEN op.underlying[RaceId] ELSE U32(0)
        /\ RaceId \in DOMAIN scores
        /\ IF PriorScore > 0 THEN scores[RaceId] = PriorScore
                             ELSE scores[RaceId] \in {0, 1}

\* the race is over for an id whose score was unset and that was queued at
\* a later target with a deactivation outside the window: the score ended
\* as 1 (the decrement ran first) and the priority is what it was
C28_Witness ==
    /\ RaceOver
    /\ ~PriorScored
    /\ scores[RaceId] = 1
    /\ PriorQueued /\ ~RaceKept
    /\ underlying[RaceId] = compute_target(StartTime, 1)

\* a task is inside the closure of process_updates, or of next_batch
Applying(t) == InClosure(t, "process_updates", "a", "underlying")
Popping(t) == InClosure(t, "next_batch", "a", "underlying")

\* C29: while process_updates applies its insertions it is the only holder
\* of the queue and no next_batch is popping; and the step in which a
\* next_batch pops its batch finds every process_updates call either not yet
\* applying or done, and leaves it so: it sees none or all of a call's
\* insertions
C29_UpdatesAtomic ==
    /\ [](\A t \in Tasks :
            Applying(t) =>
                /\ locks["underlying"] = [writers |-> {<<t, "a">>}, readers |-> {}]
                /\ \A u \in Tasks : ~Popping(u))
    /\ [][\A u \in Tasks :
            (Popping(u) /\ tasks'[u].a = PcDone) =>
                \A t \in Tasks :
                    tasks[t].name = "process_updates" =>
                        /\ tasks[t].a.at \in {"wait", "done"}
                        /\ tasks'[t] = tasks[t]]_vars

\* process_updates holds the queue and is about to apply two insertions
\* while a next_batch waits for the queue
C29_Witness ==
    \E t, u \in Tasks :
        /\ Applying(t)
        /\ Cardinality(tasks[t].ids) = 2
        /\ tasks[u].name = "next_batch"
        /\ AwaitedBy(u, "a") = {"underlying"}

\* the entries a log holds for a user, none if it does not hold the user
EntriesOf(entries, u) == IF u \in DOMAIN entries THEN entries[u] ELSE <<>>

\* C30 as claimed: after a merge every user of the result, also one that
\* only one of the two logs holds, has the entries of the first log followed
\* by those of the second, sorted stably by observed, without adjacent
\* duplicates, and without the last entry when the last two are open with
\* the same status
C30_MergeNormalises ==
    [][op'.name = "merge" =>
        /\ DOMAIN log' = DOMAIN log \cup DOMAIN op'.other
        /\ \A u \in DOMAIN log' :
            log'[u] = AddEntries(EntriesOf(log, u), EntriesOf(op'.other, u))]_vars

\* run_batch has returned, and the ids it popped
TickEnded == calls > 0 /\ tasks.pc \in {"loop", "returned"}
Popped == Range(tasks.next_batch_ids)
FetchOf(id) == IF id \in DOMAIN tasks.fetched THEN tasks.fetched[id] ELSE "unseen"

\* C31 as claimed: when a tick has ended, every popped id whose fetch gave a
\* profile is in the queue again, every popped id whose fetch gave a
\* terminal status is in recently_deactivated and not in the queue, and a
\* popped id whose fetch gave neither is not in the queue; the tick records
\* a deactivation only for the ids with a terminal status
C31_TickOutcome ==
    /\ [](TickEnded =>
            \A id \in Popped :
                /\ FetchOf(id) = "profile" => id \in DOMAIN underlying
                /\ FetchOf(id) = "status" =>
                        id \in DOMAIN recently_deactivated /\ id \notin DOMAIN underlying
                /\ FetchOf(id) = "neither" => id \notin DOMAIN underlying)
    /\ [][tasks.pc = "process_deactivations" /\ tasks'.pc = "loop" =>
            \A id \in Ids :
                FetchOf(id) # "status" =>
                    /\ id \in DOMAIN recently_deactivated'
                            <=> id \in DOMAIN recently_deactivated
                    /\ id \in DOMAIN recently_deactivated =>
                            recently_deactivated'[id] = recently_deactivated[id]]_vars

\* C32 as claimed: an error during the fetch of a batch does not end the
\* loop of run, and the ids of the batch are scheduled as they were
C32_ErrorSurvived ==
    tasks.failed =>
        /\ tasks.pc # "returned"
        /\ \A id \in Popped : id \in DOMAIN underlying

\* the records a scan of the whole store meets
Records == Scan(db, <<>>)
ShortKeys == {i \in 1..Len(Records) : Len(Records[i][1]) = 0}
ShortValues == {i \in 1..Len(Records) : Len(Records[i][2]) = 0}
KindsOf(items) == {items[i].kind : i \in 1..Len(items)}

\* C33 as claimed: no read crashes or changes the store; raw_iter over a
\* store with a short key yields InvalidKey; iter and raw_iter over a store
\* with a short value yield InvalidTimestamp, and so does lookup of the user
\* whose key holds the short value
C33_MalformedReported ==
    [][op'.name \in {"lookup", "iter", "raw_iter"} =>
        /\ db' = db
        /\ op'.name = "lookup" =>
            /\ out'.kind # "panic"
            /\ (\E i \in ShortValues :
                    Len(Records[i][1]) > 0 /\ Records[i][1][1] = op'.user_id)
                  => out'.kind = "InvalidTimestamp"
        /\ op'.name \in {"iter", "raw_iter"} =>
            /\ "panic" \notin KindsOf(out')
            /\ ShortValues # {} => "InvalidTimestamp" \in KindsOf(out')
        /\ op'.name = "raw_iter" =>
            (ShortKeys # {} => "InvalidKey" \in KindsOf(out'))]_vars

\* a value as update and merge write it: the timestamp, then a record
WellFormed(value) == Len(value) = 4
ReducerInputList == input.existing_val \o input.operands
Decoded == SelectSeq(ReducerInputList, WellFormed)
FirstTimestamp == CHOOSE t \in {Decoded[i][1] : i \in 1..Len(Decoded)} :
                    \A i \in 1..Len(Decoded) : t <= Decoded[i][1]
TopSnapshot == CHOOSE n \in {Decoded[i][4] : i \in 1..Len(Decoded)} :
                    \A i \in 1..Len(Decoded) : n >= Decoded[i][4]
Leftmost == CHOOSE i \in 1..Len(Decoded) :
                /\ Decoded[i][4] = TopSnapshot
                /\ \A j \in 1..(i - 1) : Decoded[j][4] # TopSnapshot

\* C34 as claimed: the reducer skips every input that does not decode and
\* computes its result from the others; when none decodes it returns the
\* existing value as it is
C34_UndecodableSkipped ==
    op.name = "merge" =>
        /\ out.kind = "Ok"
        /\ out.value = IF Decoded = <<>> THEN input.existing_val
                       ELSE << <<FirstTimestamp>> \o Tail(Decoded[Leftmost]) >>

\* C35: when the reducer returns a value computed from inputs that share
\* the maximum snapshot, its payload is that of the leftmost of them in the
\* order existing value, operand 1, operand 2
C35_TieKeepsLeft ==
    (op.name = "merge" /\ out.kind = "Ok" /\ Decoded # <<>>) =>
        Tail(out.value[1]) = Tail(Decoded[Leftmost])

\* the existing value and both operands carry the maximum snapshot with
\* payloads that differ from the existing one, and the reducer has returned
C35_Witness ==
    /\ op.name = "merge"
    /\ out.kind = "Ok"
    /\ Len(Decoded) = 3
    /\ \A i \in 1..3 : Decoded[i][4] = StartTime
    /\ Tail(Decoded[2]) # Tail(Decoded[1])
    /\ Tail(Decoded[3]) # Tail(Decoded[1])
    /\ Tail(out.value[1]) = Tail(Decoded[1])

\* the fields read accepts, and the first field of a line it does not
UserNumerals == {"100", "0100", "200"}
StatusNumerals == {"50", "63"}
TimeNumerals == {"1000", "1200", "1500", "2000"}
Accepted(i) ==
    CASE i = 0 -> UserNumerals
      [] i = 1 -> StatusNumerals
      [] i = 2 -> TimeNumerals
      [] i = 3 -> TimeNumerals \cup {""}
BadFields(line) == {i \in 0..3 : i >= Len(line) \/ line[i + 1] \notin Accepted(i)}
BadLines == {n \in 1..Len(input) : BadFields(input[n]) # {}}
Least(S) == CHOOSE x \in S : \A y \in S : x <= y
ErrorKind(i) ==
    CASE i = 0 -> "InvalidUserId"
      [] i = 1 -> "InvalidTwitterErrorCode"
      [] OTHER -> "InvalidTimestamp"
EntryOfLine(line) ==
    [status |-> StatusOfCode[DecimalValue[line[2]]],
     observed |-> DecimalValue[line[3]],
     reversal |-> IF line[4] = "" THEN <<>> ELSE <<DecimalValue[line[4]]>>]
LinesOfUser(u) == {n \in 1..Len(input) : DecimalValue[input[n][1]] = u}

C37_CurrentDisjoint ==
    current_suspended(log) \cap current_deactivated(log) = {}

\* after an update the log holds a user that is currently suspended and
\* another that is currently deactivated
C37_Witness ==
    /\ op.name = "update"
    /\ current_suspended(log) # {}
    /\ current_deactivated(log) # {}

\* the users of log whose last entry is open
OpenUsers == {u \in DOMAIN log : Len(log[u]) > 0 /\ log[u][Len(log[u])].reversal = <<>>}

\* the last entry of user u in the entries es
LastOf(es, u) == es[u][Len(es[u])]

\* every pair of reversals that names a user of log carries a time strictly
\* later than the observation of that user's last entry
LaterThanObserved(reversals) ==
    \A i \in 1..Len(reversals) :
        (reversals[i][1] \in DOMAIN log /\ Len(log[reversals[i][1]]) > 0)
            => LastOf(log, reversals[i][1]).observed < reversals[i][2]

\* the time of the first pair of reversals that names user u
FirstTimeFor(reversals, u) ==
    LET first == Least({i \in 1..Len(reversals) : reversals[i][1] = u})
    IN  reversals[first][2]

\* C39: an update of a valid log with times strictly later than the
\* observations they close leaves a valid log, and update closes an open
\* last entry with the time it is given, whatever the observed time is
C39_UpdateKeepsValid ==
    [][op'.name = "update" =>
        /\ (validate(log).kind = "Ok" /\ LaterThanObserved(op'.reversals))
              => validate(log').kind = "Ok"
        /\ \A u \in OpenUsers :
              (\E i \in 1..Len(op'.reversals) : op'.reversals[i][1] = u)
                 => LastOf(log', u).reversal = <<FirstTimeFor(op'.reversals, u)>>]_vars

\* an update has closed an entry observed at 1000 with the time 1500, the log
\* is valid, and no pair was rejected
C39_Witness ==
    /\ op.name = "update"
    /\ out.kind = "Ok"
    /\ validate(log).kind = "Ok"
    /\ \E u \in DOMAIN log :
          /\ Len(log[u]) > 0
          /\ LastOf(log, u).observed = 1000
          /\ LastOf(log, u).reversal = <<1500>>

\* an update has closed an entry observed at 2000 with the time 1500
C39_ClosedEarlier ==
    /\ op.name = "update"
    /\ \E u \in DOMAIN log :
          /\ Len(log[u]) > 0
          /\ LastOf(log, u).observed = 2000
          /\ LastOf(log, u).reversal = <<1500>>

\* no operation of the scheduler is in flight
NoneInFlight == \A t \in Tasks : Finished(t)

\* C38: whenever no operation is in flight every id in the queue has an
\* entry in scores, process_updates being called with ids returned by
\* next_batch only; and no step removes an entry of scores
C38_QueuedAreScored ==
    /\ [](NoneInFlight => DOMAIN underlying \subseteq DOMAIN scores)
    /\ [][DOMAIN scores \subseteq DOMAIN scores']_vars

\* a process_updates call on an id that a process_removals call brought into
\* the queue and into scores has ended, and nothing is in flight
C38_Witness ==
    /\ NoneInFlight
    /\ calls = MaxPoppedCalls
    /\ \E t \in Tasks : tasks[t].name = "process_updates"
    /\ \E id \in DOMAIN underlying :
          /\ id \in DOMAIN scores
          /\ scores[id] = 0
          /\ underlying[id] # U32(0)

====
